---- MODULE Spec2Model ----
(***************************************************************************)
(* Person / TransformedPerson entities of the shacl-toolkit library        *)
(* (src/person.js, src/transformed-person.js).                             *)
(*                                                                         *)
(* Strings are sequences of one-character strings.  A JavaScript number    *)
(* is a record [k, n]: k = "int" is the integer n, k = "half" is n + 1/2,  *)
(* k = "nan" is NaN.  A JavaScript value carries its typeof in the field   *)
(* ty.  Time values are counted in ticks, TicksPerDay ticks to the day,    *)
(* from 1970-01-01T00:00Z.                                                 *)
(***************************************************************************)
EXTENDS Integers, Sequences, FiniteSets, TLC

VARIABLES tz, now, person, tp, op, arg, threw, ret,
          registry, instances, transformers, validators, heap, held, sent

\* the static fields of the DataModel, the objects it has built, the array
\* its caller holds, and the requests sent to the triple store
modelVars ==
    <<registry, instances, transformers, validators, heap, held, sent>>

vars == <<tz, now, person, tp, op, arg, threw, ret, modelVars>>

-----------------------------------------------------------------------------
(* Bounds of the model *)

TicksPerDay == 2

MaxTicks == 2

\* objects the DataModel builds in one run
MaxObjects == 2

-----------------------------------------------------------------------------
(* JavaScript numbers *)

Num(n) == [n |-> n, k |-> "int"]

Half(n) == [n |-> n, k |-> "half"]

NaN == [n |-> 0, k |-> "nan"]

IsNaN(x) == x.k = "nan"

\* twice the value of a number that is not NaN
Twice(x) == 2 * x.n + (IF x.k = "half" THEN 1 ELSE 0)

\* x < y and x > y of JavaScript: false when either side is NaN
JsLt(x, y) == ~IsNaN(x) /\ ~IsNaN(y) /\ Twice(x) < Twice(y)

JsGt(x, y) == JsLt(y, x)

\* x - y on integers and NaN
JsSub(x, y) == IF IsNaN(x) \/ IsNaN(y) THEN NaN ELSE Num(x.n - y.n)

-----------------------------------------------------------------------------
(* JavaScript values *)

Undefined == [ty |-> "undefined"]

Str(s) == [ty |-> "string", s |-> s]

NumV(x) == [x |-> x, ty |-> "number"]

DateV(t) == [ty |-> "object", time |-> t]

IsDate(v) == v.ty = "object"

\* !v
Falsy(v) ==
    \/ v.ty = "undefined"
    \/ v.ty = "string" /\ v.s = <<>>
    \/ v.ty = "number" /\ (IsNaN(v.x) \/ Twice(v.x) = 0)

-----------------------------------------------------------------------------
(* Strings *)

WhiteSpace == {" ", "\t", "\n"}

Letters ==
    {"A","B","C","D","E","F","G","H","I","J","K","L","M",
     "N","O","P","Q","R","S","T","U","V","W","X","Y","Z",
     "a","b","c","d","e","f","g","h","i","j","k","l","m",
     "n","o","p","q","r","s","t","u","v","w","x","y","z"}

Digits == <<"0","1","2","3","4","5","6","7","8","9">>

RECURSIVE TrimStart(_)
TrimStart(s) ==
    IF s # <<>> /\ Head(s) \in WhiteSpace THEN TrimStart(Tail(s)) ELSE s

RECURSIVE TrimEnd(_)
TrimEnd(s) ==
    IF s # <<>> /\ s[Len(s)] \in WhiteSpace
    THEN TrimEnd(SubSeq(s, 1, Len(s) - 1))
    ELSE s

\* only the leading white space is removed
TrimLeading(s) == TrimStart(s)

\* String.prototype.trim
Trim(s) == TrimEnd(TrimStart(s))

\* s.replace(/\s+/g, '')
StripWs(s) == SelectSeq(s, LAMBDA c : c \notin WhiteSpace)

\* `${a} ${b}`
Join(a, b) == a \o <<" ">> \o b

-----------------------------------------------------------------------------
(* Calendar of the built-in Date: proleptic Gregorian, days from 1970-01-01 *)

IsLeap(y) == (y % 4 = 0 /\ y % 100 # 0) \/ y % 400 = 0

DaysInMonth(y, m) ==
    IF m = 2 THEN (IF IsLeap(y) THEN 29 ELSE 28)
    ELSE IF m \in {4, 6, 9, 11} THEN 30 ELSE 31

DaysFromCivil(y, m, d) ==
    LET yy  == IF m <= 2 THEN y - 1 ELSE y
        era == yy \div 400
        yoe == yy - era * 400
        mp  == IF m > 2 THEN m - 3 ELSE m + 9
        doy == (153 * mp + 2) \div 5 + d - 1
        doe == yoe * 365 + yoe \div 4 - yoe \div 100 + doy
    IN  era * 146097 + doe - 719468

CivilFromDays(z0) ==
    LET z   == z0 + 719468
        era == z \div 146097
        doe == z - era * 146097
        yoe == (doe - doe \div 1460 + doe \div 36524 - doe \div 146096) \div 365
        doy == doe - (365 * yoe + yoe \div 4 - yoe \div 100)
        mp  == (5 * doy + 2) \div 153
        d   == doy - (153 * mp + 2) \div 5 + 1
        m   == IF mp < 10 THEN mp + 3 ELSE mp - 9
        y   == yoe + era * 400 + (IF m <= 2 THEN 1 ELSE 0)
    IN  [y |-> y, d |-> d, m |-> m]

\* time value of y-m-d at tick k of the day, UTC
Ts(y, m, d, k) == DaysFromCivil(y, m, d) * TicksPerDay + k

\* calendar fields of a time value in the local time zone
LocalCivil(t) == CivilFromDays((t + tz) \div TicksPerDay)

\* Date.prototype.getFullYear / getMonth (0-based) / getDate
GetFullYear(t) == IF IsNaN(t) THEN NaN ELSE Num(LocalCivil(t.n).y)

GetMonth(t) == IF IsNaN(t) THEN NaN ELSE Num(LocalCivil(t.n).m - 1)

GetDate(t) == IF IsNaN(t) THEN NaN ELSE Num(LocalCivil(t.n).d)

DigitVal(c) == CHOOSE i \in 0..9 : Digits[i + 1] = c

IsDigit(c) == \E i \in 1..10 : Digits[i] = c

RECURSIVE ParseDigits(_)
ParseDigits(s) ==
    IF s = <<>> THEN 0
    ELSE 10 * ParseDigits(SubSeq(s, 1, Len(s) - 1)) + DigitVal(s[Len(s)])

\* n written with w digits
RECURSIVE Pad(_, _)
Pad(n, w) == IF w = 0 THEN <<>> ELSE Pad(n \div 10, w - 1) \o <<Digits[(n % 10) + 1]>>

\* the text YYYY-MM-DD
IsoDate(y, m, d) == Pad(y, 4) \o <<"-">> \o Pad(m, 2) \o <<"-">> \o Pad(d, 2)

\* new Date(string): a date-only ISO string is UTC midnight of that day,
\* a string that is no date gives the Invalid Date (time value NaN)
DateParse(s) ==
    IF /\ Len(s) = 10
       /\ s[5] = "-" /\ s[8] = "-"
       /\ \A i \in {1, 2, 3, 4, 6, 7, 9, 10} : IsDigit(s[i])
    THEN LET y == ParseDigits(SubSeq(s, 1, 4))
             m == ParseDigits(SubSeq(s, 6, 7))
             d == ParseDigits(SubSeq(s, 9, 10))
         IN  IF m \in 1..12 /\ d >= 1 /\ d <= DaysInMonth(y, m)
             THEN Num(Ts(y, m, d, 0))
             ELSE NaN
    ELSE NaN

-----------------------------------------------------------------------------
(* Outcome of a call: a returned value or a thrown Error *)

Return(v) == [threw |-> FALSE, val |-> v]

Throw(msg) == [threw |-> TRUE, val |-> msg]

\* the test every name check of both classes makes:
\* !value || typeof value !== 'string' || value.trim().length === 0
BadName(v) == Falsy(v) \/ v.ty # "string" \/ Len(Trim(v.s)) = 0

-----------------------------------------------------------------------------
(* Person *)

SourceNs == \* http://example.com/ex#
    <<"h","t","t","p",":","/","/","e","x","a","m","p","l","e",".","c","o","m","/","e","x","#">>

NoPerson == [live |-> FALSE]

\* only the white space around each name is removed
PersonGenerateUriTrimmed(firstName, lastName) ==
    SourceNs \o Trim(firstName) \o Trim(lastName)

PersonGenerateUri(firstName, lastName) ==
    SourceNs \o StripWs(firstName \o lastName)

\* date >= clock instead of date > clock
AfterNowOrEqual(date, clock) == ~IsNaN(date) /\ date.n >= clock

\* date > new Date(), the clock reading clock
AfterNow(date, clock) == JsGt(date, Num(clock))

\* new Person({uri, firstName, lastName, birthDate}) at clock value clock
NewPerson(cfg, clock) ==
    IF BadName(cfg.firstName)
    THEN Throw("firstName is required and must be a non-empty string")
    ELSE IF BadName(cfg.lastName)
    THEN Throw("lastName is required and must be a non-empty string")
    ELSE IF Falsy(cfg.birthDate)
    THEN Throw("birthDate is required")
    ELSE IF cfg.birthDate.ty # "string" /\ ~IsDate(cfg.birthDate)
    THEN Throw("birthDate must be a Date object or ISO string")
    ELSE LET date == IF cfg.birthDate.ty = "string"
                     THEN DateParse(cfg.birthDate.s)
                     ELSE cfg.birthDate.time
         IN  IF AfterNow(date, clock)
             THEN Throw("birthDate must be in the past")
             ELSE Return([live      |-> TRUE,
                          firstName |-> Trim(cfg.firstName.s),
                          lastName  |-> Trim(cfg.lastName.s),
                          birthDate |-> date,
                          uri       |-> IF Falsy(cfg.uri)
                                        THEN PersonGenerateUri(cfg.firstName.s,
                                                               cfg.lastName.s)
                                        ELSE cfg.uri.s])

\* get fullName
PersonFullName(p) == Join(p.firstName, p.lastName)

\* the birthday itself counts as not yet reached
GetAgeBirthdayLate(birthDate, referenceDate) ==
    LET age == JsSub(GetFullYear(referenceDate), GetFullYear(birthDate))
    IN  IF \/ JsLt(GetMonth(referenceDate), GetMonth(birthDate))
           \/ /\ GetMonth(referenceDate) = GetMonth(birthDate)
              /\ ~IsNaN(GetMonth(referenceDate))
              /\ ~JsGt(GetDate(referenceDate), GetDate(birthDate))
        THEN JsSub(age, Num(1))
        ELSE age

\* getAge(referenceDate) on the time values of the two Date objects
GetAge(birthDate, referenceDate) ==
    LET birthYear  == GetFullYear(birthDate)
        birthMonth == GetMonth(birthDate)
        birthDay   == GetDate(birthDate)
        refYear    == GetFullYear(referenceDate)
        refMonth   == GetMonth(referenceDate)
        refDay     == GetDate(referenceDate)
        age        == JsSub(refYear, birthYear)
    IN  IF \/ JsLt(refMonth, birthMonth)
           \/ (refMonth = birthMonth /\ ~IsNaN(refMonth) /\ JsLt(refDay, birthDay))
        THEN JsSub(age, Num(1))
        ELSE age

\* the uri is generated again from the new name
PersonSetFirstNameRenaming(p, v) ==
    IF BadName(v)
    THEN Throw("firstName must be a non-empty string")
    ELSE Return([p EXCEPT !.firstName = Trim(v.s),
                          !.uri = PersonGenerateUri(Trim(v.s), p.lastName)])

\* set firstName
PersonSetFirstName(p, v) ==
    IF BadName(v)
    THEN Throw("firstName must be a non-empty string")
    ELSE Return([p EXCEPT !.firstName = Trim(v.s)])

\* the first name is overwritten as well
PersonSetLastNameBoth(p, v) ==
    IF BadName(v)
    THEN Throw("lastName must be a non-empty string")
    ELSE Return([p EXCEPT !.lastName = Trim(v.s), !.firstName = Trim(v.s)])

\* set lastName
PersonSetLastName(p, v) ==
    IF BadName(v)
    THEN Throw("lastName must be a non-empty string")
    ELSE Return([p EXCEPT !.lastName = Trim(v.s)])

\* set birthDate at clock value clock
PersonSetBirthDate(p, v, clock) ==
    IF v.ty # "string" /\ ~IsDate(v)
    THEN Throw("birthDate must be a Date object or ISO string")
    ELSE LET date == IF v.ty = "string" THEN DateParse(v.s) ELSE v.time
         IN  IF AfterNow(date, clock)
             THEN Throw("birthDate must be in the past")
             ELSE Return([p EXCEPT !.birthDate = date])

\* a birth date equal to the clock reading counts as not in the past
PersonValidateStrict(p, clock) ==
    LET e1 == IF Len(p.firstName) = 0
              THEN <<"firstName is required and must be non-empty">> ELSE <<>>
        e2 == IF Len(p.lastName) = 0
              THEN <<"lastName is required and must be non-empty">> ELSE <<>>
        e3 == IF AfterNowOrEqual(p.birthDate, clock)
              THEN <<"birthDate must be in the past">> ELSE <<>>
        errors == e1 \o e2 \o e3
    IN  [errors |-> errors, valid |-> Len(errors) = 0]

\* validate() at clock value clock
PersonValidate(p, clock) ==
    LET e1 == IF Len(p.firstName) = 0
              THEN <<"firstName is required and must be non-empty">> ELSE <<>>
        e2 == IF Len(p.lastName) = 0
              THEN <<"lastName is required and must be non-empty">> ELSE <<>>
        e3 == IF AfterNow(p.birthDate, clock)
              THEN <<"birthDate must be in the past">> ELSE <<>>
        errors == e1 \o e2 \o e3
    IN  [errors |-> errors, valid |-> Len(errors) = 0]

-----------------------------------------------------------------------------
(* TransformedPerson *)

TargetNs == \* http://example.com/ns/Person#
    <<"h","t","t","p",":","/","/","e","x","a","m","p","l","e",".","c","o","m","/","n","s","/","P","e","r","s","o","n","#">>

MinAge == 0

MaxAge == 150

NoTP == [live |-> FALSE]

TPGenerateUri(firstName, lastName) ==
    TargetNs \o StripWs(firstName \o lastName)

\* typeof age !== 'number' || age < 0 || age > 150
BadAge(v) ==
    v.ty # "number" \/ JsLt(v.x, Num(MinAge)) \/ JsGt(v.x, Num(MaxAge))

\* new TransformedPerson({uri, firstName, lastName, fullName, age})
NewTP(cfg) ==
    IF BadName(cfg.firstName)
    THEN Throw("firstName is required and must be a non-empty string")
    ELSE IF BadName(cfg.lastName)
    THEN Throw("lastName is required and must be a non-empty string")
    ELSE IF BadName(cfg.fullName)
    THEN Throw("fullName is required and must be a non-empty string")
    ELSE IF BadAge(cfg.age)
    THEN Throw("age must be a number between 0 and 150")
    ELSE LET obj == [live      |-> TRUE,
                     firstName |-> Trim(cfg.firstName.s),
                     lastName  |-> Trim(cfg.lastName.s),
                     uri       |-> IF Falsy(cfg.uri)
                                   THEN TPGenerateUri(cfg.firstName.s,
                                                      cfg.lastName.s)
                                   ELSE cfg.uri.s,
                     age       |-> cfg.age.x,
                     fullName  |-> Trim(cfg.fullName.s)]
         IN  IF obj.fullName # Join(obj.firstName, obj.lastName)
             THEN Throw("fullName must match firstName lastName")
             ELSE Return(obj)

\* the first name is stored and the full name is left as it was
TPSetFirstNameOnly(t, v) ==
    IF BadName(v)
    THEN Throw("firstName must be a non-empty string")
    ELSE Return([t EXCEPT !.firstName = Trim(v.s)])

\* set firstName
TPSetFirstName(t, v) ==
    IF BadName(v)
    THEN Throw("firstName must be a non-empty string")
    ELSE Return([t EXCEPT !.firstName = Trim(v.s),
                          !.fullName  = Join(Trim(v.s), t.lastName)])

\* set lastName
TPSetLastName(t, v) ==
    IF BadName(v)
    THEN Throw("lastName must be a non-empty string")
    ELSE Return([t EXCEPT !.lastName = Trim(v.s),
                          !.fullName = Join(t.firstName, Trim(v.s))])

\* the trimmed value is stored without comparing it with the names
TPSetFullNameAny(t, v) ==
    IF BadName(v)
    THEN Throw("fullName must be a non-empty string")
    ELSE Return([t EXCEPT !.fullName = Trim(v.s)])

\* set fullName
TPSetFullName(t, v) ==
    IF BadName(v)
    THEN Throw("fullName must be a non-empty string")
    ELSE LET trimmed  == Trim(v.s)
             expected == Join(t.firstName, t.lastName)
         IN  IF trimmed # expected
             THEN Throw("fullName must match firstName lastName")
             ELSE Return([t EXCEPT !.fullName = trimmed])

\* set age
TPSetAge(t, v) ==
    IF BadAge(v)
    THEN Throw("age must be a number between 0 and 150")
    ELSE Return([t EXCEPT !.age = v.x])

\* /^\w+ \w+$/.test(s): digits pass as well
NamePatternWord(s) ==
    \E i \in 2..(Len(s) - 1) :
        /\ s[i] = " "
        /\ \A j \in 1..(i - 1) : s[j] \in Letters \/ IsDigit(s[j])
        /\ \A j \in (i + 1)..Len(s) : s[j] \in Letters \/ IsDigit(s[j])

\* /^[A-Za-z]+ [A-Za-z]+$/.test(s)
NamePattern(s) ==
    \E i \in 2..(Len(s) - 1) :
        /\ s[i] = " "
        /\ \A j \in 1..(i - 1) : s[j] \in Letters
        /\ \A j \in (i + 1)..Len(s) : s[j] \in Letters

ErrFirstName == "firstName is required and must be non-empty"

ErrLastName == "lastName is required and must be non-empty"

ErrFullNameLength == "fullName is required and must be at least 3 characters"

ErrFullNamePattern == "fullName must be in format FirstName LastName"

ErrFullNameMatch == "fullName must match firstName lastName"

ErrAge == "age must be a number between 0 and 150"

\* validate()
TPValidate(t) ==
    LET e1 == IF Len(t.firstName) = 0 THEN <<ErrFirstName>> ELSE <<>>
        e2 == IF Len(t.lastName) = 0 THEN <<ErrLastName>> ELSE <<>>
        e3 == IF Len(t.fullName) < 3 THEN <<ErrFullNameLength>> ELSE <<>>
        e4 == IF ~NamePattern(t.fullName) THEN <<ErrFullNamePattern>> ELSE <<>>
        e5 == IF t.fullName # Join(t.firstName, t.lastName)
              THEN <<ErrFullNameMatch>> ELSE <<>>
        e6 == IF JsLt(t.age, Num(MinAge)) \/ JsGt(t.age, Num(MaxAge))
              THEN <<ErrAge>> ELSE <<>>
        errors == e1 \o e2 \o e3 \o e4 \o e5 \o e6
    IN  [errors |-> errors, valid |-> Len(errors) = 0]

\* s.indexOf(pat), counted from 1; 0 when pat does not occur
IndexOf(s, pat) ==
    LET hits == {i \in 1..(Len(s) - Len(pat) + 1) :
                    SubSeq(s, i, i + Len(pat) - 1) = pat}
    IN  IF hits = {} THEN 0 ELSE CHOOSE i \in hits : \A j \in hits : i <= j

\* String.prototype.replace(pattern, replacement) with a string pattern:
\* the first occurrence of pat in s, wherever it is, becomes rep
ReplaceFirst(s, pat, rep) ==
    LET i == IndexOf(s, pat)
    IN  IF i = 0 THEN s
        ELSE SubSeq(s, 1, i - 1) \o rep \o SubSeq(s, i + Len(pat), Len(s))

\* the age is taken at the current clock value, not at the reference date
FromPersonToday(p, referenceDate) ==
    NewTP([firstName |-> Str(p.firstName),
           lastName  |-> Str(p.lastName),
           uri       |-> Str(ReplaceFirst(p.uri, SourceNs, TargetNs)),
           age       |-> NumV(GetAge(p.birthDate, Num(now))),
           fullName  |-> Str(PersonFullName(p))])

\* TransformedPerson.fromPerson(person, referenceDate)
FromPerson(p, referenceDate) ==
    NewTP([firstName |-> Str(p.firstName),
           lastName  |-> Str(p.lastName),
           uri       |-> Str(ReplaceFirst(p.uri, SourceNs, TargetNs)),
           age       |-> NumV(GetAge(p.birthDate, referenceDate)),
           fullName  |-> Str(PersonFullName(p))])

\* TransformedPerson.fromJSON(obj)
TPFromJSON(obj) ==
    NewTP([firstName |-> obj.firstName,
           lastName  |-> obj.lastName,
           uri       |-> obj.uri,
           age       |-> obj.age,
           fullName  |-> obj.fullName])

\* TransformedPerson.fromJsonLd(jsonLd); the field id is the key '@id'
TPFromJsonLd(jsonLd) ==
    NewTP([firstName |-> jsonLd.firstName,
           lastName  |-> jsonLd.lastName,
           uri       |-> jsonLd.id,
           age       |-> jsonLd.age,
           fullName  |-> jsonLd.fullName])

-----------------------------------------------------------------------------
(* Turtle text of the TransformedPerson *)

\* String.prototype.split(c)
RECURSIVE Split(_, _)
Split(s, c) ==
    LET i == IndexOf(s, <<c>>)
    IN  IF i = 0 THEN <<s>>
        ELSE <<SubSeq(s, 1, i - 1)>> \o Split(SubSeq(s, i + 1, Len(s)), c)

\* get localName: uri.split('#')[1] || uri.split('/').pop()
LocalName(uri) ==
    LET h == Split(uri, "#")
        p == Split(uri, "/")
    IN  IF Len(h) >= 2 /\ h[2] # <<>> THEN h[2] ELSE p[Len(p)]

\* decimal digits of a natural number
RECURSIVE Decimal(_)
Decimal(n) ==
    IF n < 10 THEN <<Digits[n + 1]>>
    ELSE Decimal(n \div 10) \o <<Digits[(n % 10) + 1]>>

\* `${x}` of a number
NumToString(x) ==
    IF IsNaN(x) THEN <<"N", "a", "N">>
    ELSE IF x.k = "int"
    THEN (IF x.n < 0 THEN <<"-">> \o Decimal(0 - x.n) ELSE Decimal(x.n))
    ELSE (IF x.n < 0 THEN <<"-">> \o Decimal(0 - x.n - 1) ELSE Decimal(x.n))
         \o <<".", "5">>

TurtlePrefix ==
    <<"@","p","r","e","f","i","x"," ","P","e","r","s","o","n",":"," ","<",
      "h","t","t","p",":","/","/","e","x","a","m","p","l","e",".","c","o",
      "m","/","n","s","/","P","e","r","s","o","n","#",">"," ",".","\n","@",
      "p","r","e","f","i","x"," ","C","l","a","s","s",":"," ","<","h","t",
      "t","p",":","/","/","e","x","a","m","p","l","e",".","c","o","m","/",
      "n","s","/","C","l","a","s","s","#",">"," ",".","\n","@","p","r","e",
      "f","i","x"," ","e","x",":"," ","<","h","t","t","p",":","/","/","e",
      "x","a","m","p","l","e",".","c","o","m","/","e","x","#",">"," ",".",
      "\n","@","p","r","e","f","i","x"," ","x","s","d",":"," ","<","h","t",
      "t","p",":","/","/","w","w","w",".","w","3",".","o","r","g","/","2",
      "0","0","1","/","X","M","L","S","c","h","e","m","a","#",">"," ",".",
      "\n","\n">>

KwSubject == <<"P","e","r","s","o","n",":">>

KwType == <<"C","l","a","s","s",":","P","e","r","s","o","n">>

KwFirstName == <<"e","x",":","f","i","r","s","t","N","a","m","e">>

KwLastName == <<"e","x",":","l","a","s","t","N","a","m","e">>

KwFullName == <<"P","e","r","s","o","n",":","f","u","l","l","N","a","m","e">>

KwAge == <<"P","e","r","s","o","n",":","a","g","e">>

Indent == <<";", "\n", " ", " ", " ", " ">>

\* toTurtle(includePrefix) of the fields of t
TPToTurtle(t, includePrefix) ==
    (IF includePrefix THEN TurtlePrefix ELSE <<>>)
    \o KwSubject \o LocalName(t.uri) \o <<" ", "a", " ">> \o KwType \o <<" ">>
    \o Indent \o KwFirstName \o <<" ", "\"">> \o t.firstName \o <<"\"", " ">>
    \o Indent \o KwLastName \o <<" ", "\"">> \o t.lastName \o <<"\"", " ">>
    \o Indent \o KwFullName \o <<" ", "\"">> \o t.fullName \o <<"\"", " ">>
    \o Indent \o KwAge \o <<" ">> \o NumToString(t.age) \o <<" ", ".">>

\* \w
WordChars == Letters \cup {Digits[i] : i \in 1..10} \cup {"_"}

\* lit stands in text at position i
Lit(text, i, lit) ==
    /\ i + Len(lit) - 1 <= Len(text)
    /\ SubSeq(text, i, i + Len(lit) - 1) = lit

IsSpace(c) == c \in WhiteSpace

IsWord(c) == c \in WordChars

NotQuote(c) == c # "\""

\* the position after the longest run, from position i, of characters c
\* with in(c)
RunEnd(text, i, in(_)) ==
    LET stops == {j \in i..Len(text) : ~in(text[j])}
    IN  IF i > Len(text) THEN i
        ELSE IF stops = {} THEN Len(text) + 1
        ELSE CHOOSE j \in stops : \A k \in stops : j <= k

\* the captures of the leftmost of the matches m, each <<start, captures>>
Leftmost(m) ==
    IF m = {} THEN <<>>
    ELSE (CHOOSE x \in m : \A y \in m : x[1] <= y[1])[2]

\* text.match(/Person:(\w+)\s+a\s+Class:Person/): <<capture>>, or <<>>
MatchSubject(text) ==
    Leftmost({ <<i, <<SubSeq(text, i + Len(KwSubject),
                           RunEnd(text, i + Len(KwSubject), IsWord) - 1)>> >> :
        i \in { j \in 1..Len(text) :
            /\ Lit(text, j, KwSubject)
            /\ LET w  == j + Len(KwSubject)
                   we == RunEnd(text, w, IsWord)
                   se == RunEnd(text, we, IsSpace)
                   te == RunEnd(text, se + 1, IsSpace)
               IN  /\ we > w
                   /\ se > we
                   /\ Lit(text, se, <<"a">>)
                   /\ te > se + 1
                   /\ Lit(text, te, KwType) } })

\* text.match(/kw\s+"([^"]+)"/): <<capture>>, or <<>>
MatchQuoted(text, kw) ==
    Leftmost({ <<i, LET q == RunEnd(text, i + Len(kw), IsSpace)
                   IN  <<SubSeq(text, q + 1,
                                RunEnd(text, q + 1, NotQuote) - 1)>> >> :
        i \in { j \in 1..Len(text) :
            /\ Lit(text, j, kw)
            /\ LET s0 == j + Len(kw)
                   q  == RunEnd(text, s0, IsSpace)
                   e  == RunEnd(text, q + 1, NotQuote)
               IN  /\ q > s0
                   /\ Lit(text, q, <<"\"">>)
                   /\ e > q + 1
                   /\ e <= Len(text) } })

\* text.match(/Person:age\s+(\d+)/): <<capture>>, or <<>>
MatchAge(text) ==
    Leftmost({ <<i, LET d == RunEnd(text, i + Len(KwAge), IsSpace)
                   IN  <<SubSeq(text, d, RunEnd(text, d, IsDigit) - 1)>> >> :
        i \in { j \in 1..Len(text) :
            /\ Lit(text, j, KwAge)
            /\ LET s0 == j + Len(KwAge)
                   d  == RunEnd(text, s0, IsSpace)
               IN  d > s0 /\ RunEnd(text, d, IsDigit) > d } })

\* TransformedPerson.fromTurtle(turtle)
TPFromTurtle(turtle) ==
    LET uriMatch       == MatchSubject(turtle)
        firstNameMatch == MatchQuoted(turtle, KwFirstName)
        lastNameMatch  == MatchQuoted(turtle, KwLastName)
        fullNameMatch  == MatchQuoted(turtle, KwFullName)
        ageMatch       == MatchAge(turtle)
    IN  IF \/ uriMatch = <<>> \/ firstNameMatch = <<>> \/ lastNameMatch = <<>>
           \/ fullNameMatch = <<>> \/ ageMatch = <<>>
        THEN Throw("Invalid Turtle format")
        ELSE NewTP([firstName |-> Str(firstNameMatch[1]),
                    lastName  |-> Str(lastNameMatch[1]),
                    uri       |-> Str(TargetNs \o uriMatch[1]),
                    age       |-> NumV(Num(ParseDigits(ageMatch[1]))),
                    fullName  |-> Str(fullNameMatch[1])])

-----------------------------------------------------------------------------
(* Plain objects of the Person *)

\* Date.prototype.toISOString().split('T')[0]: the UTC calendar date
ToISODate(t) ==
    LET c == CivilFromDays(t.n \div TicksPerDay)
    IN  IsoDate(c.y, c.m, c.d)

\* get birthDateISO; toISOString throws a RangeError on the Invalid Date
BirthDateISO(p) ==
    IF IsNaN(p.birthDate)
    THEN Throw("Invalid time value")
    ELSE Return(ToISODate(p.birthDate))

\* Person.prototype.toJSON() at clock value clock
PersonToJSON(p, clock) ==
    LET iso == BirthDateISO(p)
    IN  IF iso.threw THEN iso
        ELSE Return([firstName |-> Str(p.firstName),
                     lastName  |-> Str(p.lastName),
                     birthDate |-> Str(iso.val),
                     uri       |-> Str(p.uri),
                     age       |-> NumV(GetAge(p.birthDate, Num(clock))),
                     fullName  |-> Str(PersonFullName(p)),
                     localName |-> Str(LocalName(p.uri))])

\* Person.fromJSON(obj) at clock value clock
PersonFromJSON(obj, clock) ==
    NewPerson([firstName |-> obj.firstName,
               lastName  |-> obj.lastName,
               birthDate |-> obj.birthDate,
               uri       |-> obj.uri], clock)

-----------------------------------------------------------------------------
(* Person and Turtle text (src/person.js) *)

PersonTurtlePrefix ==
    <<"@","p","r","e","f","i","x"," ","e","x",":"," ","<","h","t","t","p",
      ":","/","/","e","x","a","m","p","l","e",".","c","o","m","/","e","x",
      "#",">"," ",".","\n","@","p","r","e","f","i","x"," ","x","s","d",":",
      " ","<","h","t","t","p",":","/","/","w","w","w",".","w","3",".","o",
      "r","g","/","2","0","0","1","/","X","M","L","S","c","h","e","m","a",
      "#",">"," ",".","\n","\n">>

KwPersonSubject == <<"e","x",":">>

KwPersonType == <<"e","x",":","P","e","r","s","o","n">>

KwBirthDate == <<"e","x",":","b","i","r","t","h","D","a","t","e">>

KwXsdDate == <<"^","^","x","s","d",":","d","a","t","e">>

\* toTurtle(includePrefix) of the Person p; birthDateISO may throw
PersonToTurtle(p, includePrefix) ==
    LET iso == BirthDateISO(p)
    IN  IF iso.threw THEN iso
        ELSE Return(
          (IF includePrefix THEN PersonTurtlePrefix ELSE <<>>)
          \o KwPersonSubject \o LocalName(p.uri) \o <<" ", "a", " ">>
          \o KwPersonType \o <<" ">>
          \o Indent \o KwFirstName \o <<" ", "\"">> \o p.firstName \o <<"\"", " ">>
          \o Indent \o KwLastName \o <<" ", "\"">> \o p.lastName \o <<"\"", " ">>
          \o Indent \o KwBirthDate \o <<" ", "\"">> \o iso.val \o <<"\"">>
          \o KwXsdDate \o <<" ", ".">>)

\* text.match(/ex:(\w+)\s+a\s+ex:Person/): <<capture>>, or <<>>
MatchPersonSubject(text) ==
    Leftmost({ <<i, <<SubSeq(text, i + Len(KwPersonSubject),
                           RunEnd(text, i + Len(KwPersonSubject), IsWord) - 1)>> >> :
        i \in { j \in 1..Len(text) :
            /\ Lit(text, j, KwPersonSubject)
            /\ LET w  == j + Len(KwPersonSubject)
                   we == RunEnd(text, w, IsWord)
                   se == RunEnd(text, we, IsSpace)
                   te == RunEnd(text, se + 1, IsSpace)
               IN  /\ we > w
                   /\ se > we
                   /\ Lit(text, se, <<"a">>)
                   /\ te > se + 1
                   /\ Lit(text, te, KwPersonType) } })

\* text.match(/ex:birthDate\s+"([^"]+)"\^\^xsd:date/): <<capture>>, or <<>>
MatchBirthDate(text) ==
    Leftmost({ <<i, LET q == RunEnd(text, i + Len(KwBirthDate), IsSpace)
                   IN  <<SubSeq(text, q + 1,
                                RunEnd(text, q + 1, NotQuote) - 1)>> >> :
        i \in { j \in 1..Len(text) :
            /\ Lit(text, j, KwBirthDate)
            /\ LET s0 == j + Len(KwBirthDate)
                   q  == RunEnd(text, s0, IsSpace)
                   e  == RunEnd(text, q + 1, NotQuote)
               IN  /\ q > s0
                   /\ Lit(text, q, <<"\"">>)
                   /\ e > q + 1
                   /\ e <= Len(text)
                   /\ Lit(text, e + 1, KwXsdDate) } })

\* the text is read without its subject line
PersonFromTurtleAnySubject(turtle, clock) ==
    LET firstNameMatch == MatchQuoted(turtle, KwFirstName)
        lastNameMatch  == MatchQuoted(turtle, KwLastName)
        birthDateMatch == MatchBirthDate(turtle)
    IN  IF \/ firstNameMatch = <<>> \/ lastNameMatch = <<>>
           \/ birthDateMatch = <<>>
        THEN Throw("Invalid Turtle format")
        ELSE NewPerson([firstName |-> Str(firstNameMatch[1]),
                        lastName  |-> Str(lastNameMatch[1]),
                        birthDate |-> Str(birthDateMatch[1]),
                        uri       |-> Undefined], clock)

\* Person.fromTurtle(turtle) at clock value clock
PersonFromTurtle(turtle, clock) ==
    LET uriMatch       == MatchPersonSubject(turtle)
        firstNameMatch == MatchQuoted(turtle, KwFirstName)
        lastNameMatch  == MatchQuoted(turtle, KwLastName)
        birthDateMatch == MatchBirthDate(turtle)
    IN  IF \/ uriMatch = <<>> \/ firstNameMatch = <<>> \/ lastNameMatch = <<>>
           \/ birthDateMatch = <<>>
        THEN Throw("Invalid Turtle format")
        ELSE NewPerson([firstName |-> Str(firstNameMatch[1]),
                        lastName  |-> Str(lastNameMatch[1]),
                        birthDate |-> Str(birthDateMatch[1]),
                        uri       |-> Str(SourceNs \o uriMatch[1])], clock)

-----------------------------------------------------------------------------
(* DataModel: the registry of classes and the lists of their instances *)
(* (src/data-model.js).  A Map is the sequence of its entries in insertion *)
(* order.  Objects live in the heap and are referred to by their index,    *)
(* wrapped as Ref(index), in every list and array;                         *)
(* the four static Maps and the heap make up the world w an operation      *)
(* works on.                                                               *)

MapHas(m, k) == \E i \in 1..Len(m) : m[i].key = k

MapGet(m, k) == m[CHOOSE i \in 1..Len(m) : m[i].key = k].value

MapSet(m, k, v) ==
    IF MapHas(m, k)
    THEN [i \in 1..Len(m) |->
             IF m[i].key = k THEN [value |-> v, key |-> k] ELSE m[i]]
    ELSE Append(m, [value |-> v, key |-> k])

MapKeys(m) == [i \in 1..Len(m) |-> m[i].key]

\* a reference to the object at index i of the heap
Ref(i) == [ty |-> "object", ref |-> i]

\* an object literal without methods
PlainObject == [ty |-> "object"]

IsRef(v) == "ref" \in DOMAIN v

\* the object is a Person (otherwise a TransformedPerson)
IsPersonObj(o) == "birthDate" \in DOMAIN o

\* outcome of an operation on the world: the world it leaves, and the
\* value returned or the message of the Error thrown
Ok(w, v) == [threw |-> FALSE, w |-> w, val |-> v]

Fail(w, msg) == [threw |-> TRUE, w |-> w, val |-> msg]

EmptyWorld ==
    [registry |-> <<>>, instances |-> <<>>, transformers |-> <<>>,
     validators |-> <<>>, heap |-> <<>>]

\* the value is defined and not falsy: a function or a result object
Given(v) == "ty" \notin DOMAIN v

\* the class is registered and its instance list is left out
RegisterClassNoList(w, name, classConstructor, options) ==
    IF MapHas(w.registry, name)
    THEN Fail(w, "Class is already registered")
    ELSE Ok([w EXCEPT !.registry = MapSet(@, name,
                          [instances   |-> <<>>,
                           constructor |-> classConstructor,
                           rdfType     |-> options.rdfType,
                           namespace   |-> options.namespace])],
            Undefined)

\* DataModel.registerClass(name, classConstructor, options)
RegisterClass(w, name, classConstructor, options) ==
    IF MapHas(w.registry, name)
    THEN Fail(w, "Class is already registered")
    ELSE LET w1 == [w EXCEPT !.registry = MapSet(@, name,
                          [instances   |-> <<>>,
                           constructor |-> classConstructor,
                           rdfType     |-> options.rdfType,
                           namespace   |-> options.namespace]),
                             !.instances = MapSet(@, name, <<>>)]
             w2 == IF Given(options.transformer)
                   THEN [w1 EXCEPT !.transformers =
                                      MapSet(@, name, options.transformer)]
                   ELSE w1
             w3 == IF Given(options.validator)
                   THEN [w2 EXCEPT !.validators =
                                      MapSet(@, name, options.validator)]
                   ELSE w2
         IN  Ok(w3, Undefined)

\* the transformer initialize() registers:
\* (person, options = {}) => TransformedPerson.fromPerson(person, options.referenceDate)
FromPersonTransformer == [fn |-> "fromPerson"]

\* TransformedPerson is registered with a validator that rejects everything
InitializeRejecting(w) ==
    LET r == RegisterClass(w, "Person", "Person",
                 [rdfType     |-> "http://example.com/ex#Person",
                  namespace   |-> "ex",
                  transformer |-> Undefined,
                  validator   |-> Undefined])
    IN  IF r.threw THEN r
        ELSE RegisterClass(r.w, "TransformedPerson", "TransformedPerson",
                 [rdfType     |-> "http://example.com/ns/Class#Person",
                  namespace   |-> "Person",
                  transformer |-> FromPersonTransformer,
                  validator   |-> [fn |-> "reject"]])

\* DataModel.initialize()
Initialize(w) ==
    LET r == RegisterClass(w, "Person", "Person",
                 [rdfType     |-> "http://example.com/ex#Person",
                  namespace   |-> "ex",
                  transformer |-> Undefined,
                  validator   |-> Undefined])
    IN  IF r.threw THEN r
        ELSE RegisterClass(r.w, "TransformedPerson", "TransformedPerson",
                 [rdfType     |-> "http://example.com/ns/Class#Person",
                  namespace   |-> "Person",
                  transformer |-> FromPersonTransformer,
                  validator   |-> Undefined])

\* DataModel.getClass(name)
GetClass(w, name) ==
    IF ~MapHas(w.registry, name)
    THEN Fail(w, "Class is not registered")
    ELSE Ok(w, MapGet(w.registry, name).constructor)

\* new ClassConstructor(data) at clock value clock
Construct(classConstructor, data, clock) ==
    IF classConstructor = "Person"
    THEN NewPerson(data, clock)
    ELSE NewTP(data)

\* the instance is built and returned without being tracked
CreateUntracked(w, className, data, clock) ==
    LET c == GetClass(w, className)
    IN  IF c.threw THEN c
        ELSE LET r == Construct(c.val, data, clock)
             IN  IF r.threw THEN Fail(w, r.val)
                 ELSE Ok([w EXCEPT !.heap = Append(@, r.val)],
                         Ref(Len(w.heap) + 1))

\* DataModel.create(className, data) at clock value clock
Create(w, className, data, clock) ==
    LET c == GetClass(w, className)
    IN  IF c.threw THEN c
        ELSE LET r == Construct(c.val, data, clock)
             IN  IF r.threw THEN Fail(w, r.val)
                 ELSE LET ref == Len(w.heap) + 1
                          w1  == [w EXCEPT !.heap = Append(@, r.val)]
                      IN  IF ~MapHas(w.instances, className)
                          THEN Fail(w1, "Cannot read properties of undefined")
                          ELSE Ok([w1 EXCEPT !.instances =
                                       MapSet(@, className,
                                          Append(MapGet(@, className), Ref(ref)))],
                                  Ref(ref))

\* an array a caller holds: its items, and the class whose internal list it
\* is when it is that very array ("" for an array of its own)
Array(items, alias) == [items |-> items, alias |-> alias]

\* the internal array itself is handed out
GetInstancesShared(w, className) ==
    IF ~MapHas(w.instances, className)
    THEN Fail(w, "Class is not registered")
    ELSE Ok(w, Array(MapGet(w.instances, className), className))

\* DataModel.getInstances(className): [...this.#instances.get(className)]
GetInstances(w, className) ==
    IF ~MapHas(w.instances, className)
    THEN Fail(w, "Class is not registered")
    ELSE Ok(w, Array(MapGet(w.instances, className), ""))

\* the transformer called with (instance, options) at clock value clock;
\* fromPerson takes new Date() when options.referenceDate is undefined and
\* fails with a TypeError on an object that has no uri or no getAge()
ApplyTransformer(t, w, instance, options, clock) ==
    IF ~IsRef(instance)
    THEN Throw("Cannot read properties of undefined")
    ELSE LET obj == w.heap[instance.ref]
         IN  IF ~IsPersonObj(obj)
             THEN Throw("person.getAge is not a function")
             ELSE FromPerson(obj,
                             IF options.referenceDate.ty = "undefined"
                             THEN Num(clock)
                             ELSE options.referenceDate.time)

\* the result is returned without being tracked
TransformUntracked(w, instance, targetClassName, options, clock) ==
    IF ~MapHas(w.transformers, targetClassName)
    THEN Fail(w, "No transformer registered")
    ELSE LET r == ApplyTransformer(MapGet(w.transformers, targetClassName),
                                   w, instance, options, clock)
         IN  IF r.threw THEN Fail(w, r.val)
             ELSE Ok([w EXCEPT !.heap = Append(@, r.val)],
                     Ref(Len(w.heap) + 1))

\* DataModel.transform(instance, targetClassName, options)
Transform(w, instance, targetClassName, options, clock) ==
    IF ~MapHas(w.transformers, targetClassName)
    THEN Fail(w, "No transformer registered")
    ELSE LET r == ApplyTransformer(MapGet(w.transformers, targetClassName),
                                   w, instance, options, clock)
         IN  IF r.threw THEN Fail(w, r.val)
             ELSE LET ref == Len(w.heap) + 1
                      w1  == [w EXCEPT !.heap = Append(@, r.val)]
                  IN  IF MapHas(w.instances, targetClassName)
                      THEN Ok([w1 EXCEPT !.instances =
                                   MapSet(@, targetClassName,
                                      Append(MapGet(@, targetClassName), Ref(ref)))],
                              Ref(ref))
                      ELSE Ok(w1, Ref(ref))

\* a validator a caller registers: it rejects every instance
RejectingValidator == [fn |-> "reject"]

RejectedResult == [errors |-> <<"rejected">>, valid |-> FALSE]

\* validator(instance)
ApplyValidator(v, instance) == RejectedResult

\* instance.validate() of an object of the heap
ValidateOf(obj, clock) ==
    IF IsPersonObj(obj) THEN PersonValidate(obj, clock) ELSE TPValidate(obj)

\* the instance's own validate() is called whatever is registered
ValidateInstanceOwn(w, className, instance, clock) ==
    IF IsRef(instance)
    THEN Ok(w, ValidateOf(w.heap[instance.ref], clock))
    ELSE Ok(w, [errors |-> <<>>, valid |-> TRUE])

\* DataModel.validateInstance(className, instance)
ValidateInstance(w, className, instance, clock) ==
    IF ~MapHas(w.validators, className)
    THEN IF IsRef(instance)
         THEN Ok(w, ValidateOf(w.heap[instance.ref], clock))
         ELSE Ok(w, [errors |-> <<>>, valid |-> TRUE])
    ELSE Ok(w, ApplyValidator(MapGet(w.validators, className), instance))

\* DataModel.validateAll(className)
ValidateAll(w, className, clock) ==
    LET g == GetInstances(w, className)
    IN  IF g.threw THEN g
        ELSE Ok(w, [i \in 1..Len(g.val.items) |->
                      [instance   |-> g.val.items[i],
                       validation |-> ValidateInstance(w, className,
                                          g.val.items[i], clock).val]])

\* every list is emptied, as by clearAll()
ClearInstancesEvery(w, className) ==
    IF MapHas(w.instances, className)
    THEN Ok([w EXCEPT !.instances =
                 [i \in 1..Len(@) |-> [value |-> <<>>, key |-> @[i].key]]],
            Undefined)
    ELSE Ok(w, Undefined)

\* DataModel.clearInstances(className)
ClearInstances(w, className) ==
    IF MapHas(w.instances, className)
    THEN Ok([w EXCEPT !.instances = MapSet(@, className, <<>>)], Undefined)
    ELSE Ok(w, Undefined)

\* DataModel.clearAll()
ClearAll(w) ==
    Ok([w EXCEPT !.instances =
                    [i \in 1..Len(@) |-> [value |-> <<>>, key |-> @[i].key]]],
       Undefined)

\* TransformedPerson.prototype.toJSON()
TPToJSON(t) ==
    [firstName |-> Str(t.firstName),
     lastName  |-> Str(t.lastName),
     uri       |-> Str(t.uri),
     age       |-> NumV(t.age),
     fullName  |-> Str(t.fullName),
     localName |-> Str(LocalName(t.uri))]

\* inst.toJSON() of an object of the heap
ToJSONOf(obj, clock) ==
    IF IsPersonObj(obj) THEN PersonToJSON(obj, clock) ELSE Return(TPToJSON(obj))

\* Array.prototype.map over the outcomes out of its callbacks: the values, or
\* the Error of the first callback that throws
MapOutcomes(out) ==
    LET bad == {i \in 1..Len(out) : out[i].threw}
    IN  IF bad # {}
        THEN Throw(out[CHOOSE i \in bad : \A j \in bad : i <= j].val)
        ELSE Return([i \in 1..Len(out) |-> out[i].val])

\* instances.map(inst => inst.toJSON()): the plain objects, or the Error of
\* the first toJSON() that throws
MapToJSON(w, list, clock) ==
    MapOutcomes([i \in 1..Len(list) |-> ToJSONOf(w.heap[list[i].ref], clock)])

\* result[name] = m for the list of class name, before the entries rest of
\* the classes after it; the first toJSON() that throws ends the export
ExportEntry(name, m, rest) ==
    IF m.threw THEN m
    ELSE IF rest.threw THEN rest
    ELSE Return(<<[value |-> m.val, key |-> name]>> \o rest.val)

\* the entries of the whole registry from index i on
RECURSIVE ExportEntries(_, _, _)
ExportEntries(w, i, clock) ==
    IF i > Len(w.instances) THEN Return(<<>>)
    ELSE ExportEntry(w.instances[i].key,
                     MapToJSON(w, w.instances[i].value, clock),
                     ExportEntries(w, i + 1, clock))

\* the outcome r of a computation as the outcome of the call in world w
Outcome(w, r) == IF r.threw THEN Fail(w, r.val) ELSE Ok(w, r.val)

\* { class: className, instances: m } when the map m did not throw
ExportedClass(w, className, m) ==
    IF m.threw THEN Fail(w, m.val)
    ELSE Ok(w, [instances |-> m.val, class |-> className])

\* DataModel.exportToJSON(className); className "" is the call without one
ExportToJSON(w, className, clock) ==
    IF className # ""
    THEN LET g == GetInstances(w, className)
         IN  IF g.threw THEN g
             ELSE ExportedClass(w, className,
                                MapToJSON(w, g.val.items, clock))
    ELSE Outcome(w, ExportEntries(w, 1, clock))

\* inst.toTurtle(includePrefix) of a tracked object
ToTurtleOf(obj, includePrefix) ==
    IF IsPersonObj(obj) THEN PersonToTurtle(obj, includePrefix)
    ELSE Return(TPToTurtle(obj, includePrefix))

\* parts.join('\n\n')
RECURSIVE JoinParts(_)
JoinParts(parts) ==
    IF parts = <<>> THEN <<>>
    ELSE IF Len(parts) = 1 THEN parts[1]
    ELSE parts[1] \o <<"\n", "\n">> \o JoinParts(Tail(parts))

\* the instances of the entries of m from entry i on, in the order of the Map
RECURSIVE InstancesFrom(_, _)
InstancesFrom(m, i) ==
    IF i > Len(m) THEN <<>> ELSE m[i].value \o InstancesFrom(m, i + 1)

\* the Turtle of the instances of list, the first one with the prefixes
TurtleParts(w, list) ==
    MapOutcomes([i \in 1..Len(list) |-> ToTurtleOf(w.heap[list[i].ref], i = 1)])

\* the parts joined, or the error of the part that threw
JoinedTurtle(w, r) == IF r.threw THEN Fail(w, r.val) ELSE Ok(w, JoinParts(r.val))

\* DataModel.exportToTurtle(className); className "" is the call without one
ExportToTurtle(w, className) ==
    IF className # ""
    THEN LET g == GetInstances(w, className)
         IN  IF g.threw THEN g
             ELSE JoinedTurtle(w, TurtleParts(w, g.val.items))
    ELSE JoinedTurtle(w, TurtleParts(w, InstancesFrom(w.instances, 1)))

\* the properties fromJSON reads
JSONFields == {"uri", "firstName", "lastName", "birthDate", "fullName", "age"}

\* reading a property an object does not have gives undefined
Fill(item) ==
    [f \in JSONFields |-> IF f \in DOMAIN item THEN item[f] ELSE Undefined]

\* ClassConstructor.fromJSON(item) at clock value clock
FromJSONOf(classConstructor, item, clock) ==
    IF "ty" \in DOMAIN item   \* undefined instead of an object
    THEN Throw("Cannot read properties of undefined")
    ELSE IF classConstructor = "Person"
    THEN PersonFromJSON(Fill(item), clock)
    ELSE TPFromJSON(Fill(item))

\* the loop of importFromJSON from item i on; made are the instances
\* created so far
RECURSIVE ImportLoop(_, _, _, _, _, _, _)
ImportLoop(w, classConstructor, className, data, i, made, clock) ==
    IF i > Len(data) THEN Ok(w, Array(made, ""))
    ELSE LET r == FromJSONOf(classConstructor, data[i], clock)
         IN  IF r.threw THEN Fail(w, r.val)
             ELSE LET ref == Len(w.heap) + 1
                      w1  == [w EXCEPT !.heap = Append(@, r.val)]
                  IN  IF ~MapHas(w.instances, className)
                      THEN Fail(w1, "Cannot read properties of undefined")
                      ELSE ImportLoop(
                             [w1 EXCEPT !.instances =
                                  MapSet(@, className,
                                     Append(MapGet(@, className), Ref(ref)))],
                             classConstructor, className, data, i + 1,
                             Append(made, Ref(ref)), clock)

\* nothing stays appended when an item throws
ImportFromJSONAtomic(w, className, data, clock) ==
    LET c == GetClass(w, className)
    IN  IF c.threw THEN c
        ELSE LET r == ImportLoop(w, c.val, className, data, 1, <<>>, clock)
             IN  IF r.threw THEN Fail(w, r.val) ELSE r

\* DataModel.importFromJSON(className, data)
ImportFromJSON(w, className, data, clock) ==
    LET c == GetClass(w, className)
    IN  IF c.threw THEN c
        ELSE ImportLoop(w, c.val, className, data, 1, <<>>, clock)

\* the predicate p => p.firstName === name
FirstNameIs(name) == [firstName |-> name]

\* DataModel.find(className, predicate)
Find(w, className, predicate) ==
    LET g == GetInstances(w, className)
    IN  IF g.threw THEN g
        ELSE Ok(w, Array(SelectSeq(g.val.items,
                            LAMBDA x : w.heap[x.ref].firstName = predicate.firstName),
                         ""))

\* DataModel.getClassMetadata(className)
GetClassMetadata(w, className) ==
    IF ~MapHas(w.registry, className)
    THEN Fail(w, "Class is not registered")
    ELSE LET entry == MapGet(w.registry, className)
         IN  Ok(w, [name           |-> className,
                    rdfType        |-> entry.rdfType,
                    namespace      |-> entry.namespace,
                    instanceCount  |-> IF MapHas(w.instances, className)
                                       THEN Len(MapGet(w.instances, className))
                                       ELSE 0,
                    hasTransformer |-> MapHas(w.transformers, className),
                    hasValidator   |-> MapHas(w.validators, className)])

\* instances of the first n entries together
RECURSIVE CountTo(_, _)
CountTo(m, n) == IF n = 0 THEN 0 ELSE CountTo(m, n - 1) + Len(m[n].value)

\* the count of each class is written as the total
GetStatisticsLast(w) ==
    LET bad == {i \in 1..Len(w.instances) :
                   ~MapHas(w.registry, w.instances[i].key)}
    IN  IF bad # {} THEN Fail(w, "Class is not registered")
        ELSE Ok(w, [totalClasses   |-> Len(w.registry),
                    totalInstances |-> IF w.instances = <<>> THEN 0
                                       ELSE Len(w.instances[Len(w.instances)].value),
                    classes |->
                      [i \in 1..Len(w.instances) |->
                         [value |-> [count    |-> Len(w.instances[i].value),
                                     metadata |-> GetClassMetadata(w,
                                                    w.instances[i].key).val],
                          key   |-> w.instances[i].key]]])

\* DataModel.getStatistics()
GetStatistics(w) ==
    LET bad == {i \in 1..Len(w.instances) :
                   ~MapHas(w.registry, w.instances[i].key)}
    IN  IF bad # {} THEN Fail(w, "Class is not registered")
        ELSE Ok(w, [totalClasses   |-> Len(w.registry),
                    totalInstances |-> CountTo(w.instances, Len(w.instances)),
                    classes |->
                      [i \in 1..Len(w.instances) |->
                         [value |-> [count    |-> Len(w.instances[i].value),
                                     metadata |-> GetClassMetadata(w,
                                                    w.instances[i].key).val],
                          key   |-> w.instances[i].key]]])

-----------------------------------------------------------------------------
(* Inputs *)

Jane == <<"J","a","n","e">>

Doe == <<"D","o","e">>

\* names handed to the Person
PersonNameInputs ==
    { Undefined, NumV(Num(5)), Str(<<>>), Str(<<" ">>),
      Str(Jane), Str(<<" ">> \o Doe \o <<"\t">>) }

PersonUriInputs == { Undefined, Str(<<"u","r","n",":","p",":","7">>) }

ClockStart == Ts(2026, 1, 10, 0)

\* Date objects handed in by callers
DateObjects ==
    { DateV(NaN),
      DateV(Num(Ts(2000, 1, 1, 1))),
      DateV(Num(ClockStart)),
      DateV(Num(ClockStart + 1)),
      DateV(Num(ClockStart + MaxTicks + 1)) }

BirthDateInputs ==
    { Undefined, Str(<<>>), NumV(Num(5)),
      Str(<<"n","o","t","-","a","-","d","a","t","e">>),
      Str(IsoDate(2000, 1, 1)), Str(IsoDate(2000, 2, 29)),
      Str(IsoDate(2026, 1, 10)), Str(IsoDate(2026, 1, 11)),
      Str(IsoDate(2030, 1, 1)) } \cup DateObjects

\* reference dates; Undefined stands for the default, new Date()
ReferenceDates ==
    { Undefined, DateV(NaN),
      DateV(DateParse(IsoDate(2026, 1, 10))),
      DateV(DateParse(IsoDate(2025, 12, 31))),
      DateV(DateParse(IsoDate(2026, 1, 1))),
      DateV(DateParse(IsoDate(2025, 2, 28))),
      DateV(DateParse(IsoDate(1999, 6, 1))),
      DateV(DateParse(IsoDate(2151, 1, 1))),
      DateV(Num(Ts(2026, 2, 28, TicksPerDay - 1))) }

AgeInputs ==
    { Undefined, Str(<<"2", "6">>),
      NumV(NaN), NumV(Num(-5)), NumV(Num(-1)), NumV(Half(-1)),
      NumV(Num(0)), NumV(Num(26)), NumV(Half(26)), NumV(Num(150)),
      NumV(Half(150)), NumV(Num(151)), NumV(Num(200)) }

\* ages handed to the age setter
TPSetterAges ==
    { Str(<<"2", "6">>), NumV(NaN), NumV(Half(-1)), NumV(Num(0)),
      NumV(Half(26)), NumV(Num(150)), NumV(Half(150)), NumV(Num(200)) }

\* names handed to the TransformedPerson constructor
TPNameInputs ==
    PersonNameInputs \cup { Str(<<"A","n","n","e","-","M","a","r","i","e">>), Str(<<"M","a","r","y"," ","J","o">>) }

\* names handed to the TransformedPerson setters
TPSetterNames ==
    { Undefined, Str(<<" ">>), Str(<<" ">> \o Doe \o <<"\t">>), Str(<<"R","2">>) }

\* URIs handed to the Person from which a TransformedPerson is derived
SourceUriInputs ==
    { Undefined,
      Str(SourceNs \o <<"J","a","n","e","D","o","e">>),
      Str(<<"u","r","n",":","p",":","7">>),
      Str(<<"h","t","t","p",":","/","/","p","r","o","x","y",".","o","r","g","/","?","u","=">> \o SourceNs \o <<"J","a","n","e","D","o","e">>) }

TPUriInputs == { Undefined, Str(TargetNs \o <<"J","a","n","e","D","o","e">>) }

\* full names tried with the names f and l
FullNameInputs(f, l) ==
    { Undefined, Str(<<>>), Str(<<"J","o","h","n"," ","S","m","i","t","h">>) }
    \cup (IF f.ty = "string" /\ l.ty = "string"
          THEN { Str(Join(f.s, l.s)),
                 Str(<<" ">> \o Join(Trim(f.s), Trim(l.s)) \o <<"\n">>),
                 Str(Join(Trim(l.s), Trim(f.s))),
                 Str(Trim(f.s) \o Trim(l.s)) }
          ELSE {})

\* the Persons from which a TransformedPerson is derived
SourcePersonInputs ==
    { [firstName |-> Str(Jane), lastName |-> Str(Doe),
       birthDate |-> Str(IsoDate(2000, 1, 1)), uri |-> u] :
         u \in SourceUriInputs }
    \cup
    { [firstName |-> Str(<<"M","a","r","y"," ","J","o">>), lastName |-> Str(<<" ">> \o Doe \o <<"\t">>),
       birthDate |-> b, uri |-> Undefined] :
         b \in { Str(IsoDate(2000, 2, 29)), Str(IsoDate(2026, 1, 10)),
                 Str(<<"n","o","t","-","a","-","d","a","t","e">>), DateV(Num(Ts(2000, 1, 1, 1))) } }

-----------------------------------------------------------------------------
(* State *)

\* offsets of the local time zone from UTC
TimeZones == {0 - (TicksPerDay \div 2), 0, TicksPerDay \div 2}

Init ==
    /\ tz \in TimeZones
    /\ now = ClockStart
    /\ person = NoPerson
    /\ tp = NoTP
    /\ op = "init"
    /\ arg = Undefined
    /\ threw = FALSE
    /\ ret = Undefined
    /\ registry = Initialize(EmptyWorld).w.registry
    /\ instances = Initialize(EmptyWorld).w.instances
    /\ transformers = Initialize(EmptyWorld).w.transformers
    /\ validators = Initialize(EmptyWorld).w.validators
    /\ heap = <<>>
    /\ held = [items |-> <<>>, alias |-> ""]
    /\ sent = <<>>

\* the call of operation o with input a had outcome r
Called(o, a, r) ==
    /\ op' = o
    /\ arg' = a
    /\ threw' = r.threw
    /\ ret' = r.val

\* the clock moves forward
Tick ==
    /\ now < ClockStart + MaxTicks
    /\ now' = now + 1
    /\ Called("tick", Undefined, Return(Undefined))
    /\ UNCHANGED <<tz, person, tp, modelVars>>

-----------------------------------------------------------------------------
(* Operations on the Person *)

\* no call has been made at the current clock value
Fresh == op \in {"init", "tick"}

\* A constructor call that throws leaves no object behind, so a second call
\* after it starts from the same state as the first: one call is followed
\* per clock value.
PersonConstruct(cfg) ==
    /\ ~person.live
    /\ Fresh
    /\ LET r == NewPerson(cfg, now)
       IN  /\ person' = IF r.threw THEN person ELSE r.val
           /\ Called("new Person", cfg, r)
    /\ UNCHANGED <<tz, now, tp, modelVars>>

PersonSetter(o, v, r) ==
    /\ person' = IF r.threw THEN person ELSE r.val
    /\ Called(o, v, r)
    /\ UNCHANGED <<tz, now, tp, modelVars>>

SetFirstName(v) ==
    /\ person.live
    /\ PersonSetter("Person.firstName=", v, PersonSetFirstName(person, v))

SetLastName(v) ==
    /\ person.live
    /\ PersonSetter("Person.lastName=", v, PersonSetLastName(person, v))

SetBirthDate(v) ==
    /\ person.live
    /\ PersonSetter("Person.birthDate=", v, PersonSetBirthDate(person, v, now))

\* the time value of the reference date of a call; the default is new Date()
RefTime(referenceDate) ==
    IF referenceDate.ty = "undefined" THEN Num(now) ELSE referenceDate.time

CallGetAge(referenceDate) ==
    /\ person.live
    /\ Called("getAge", referenceDate,
              Return(GetAge(person.birthDate, RefTime(referenceDate))))
    /\ UNCHANGED <<tz, now, person, tp, modelVars>>

CallPersonValidate ==
    /\ person.live
    /\ Called("Person.validate", Undefined, Return(PersonValidate(person, now)))
    /\ UNCHANGED <<tz, now, person, tp, modelVars>>

\* get birthDate hands out the Date object the Person holds, and the
\* constructor and the setter keep the Date object they are given: a caller
\* who calls setTime(t) on that object changes the Person's birth date
BirthDateSetTime(t) ==
    /\ person.live
    /\ person' = [person EXCEPT !.birthDate = t.time]
    /\ Called("birthDate.setTime", t, Return(Undefined))
    /\ UNCHANGED <<tz, now, tp, modelVars>>

\* p.toJSON()
CallPersonToJSON ==
    /\ person.live
    /\ Called("Person.toJSON", Undefined, PersonToJSON(person, now))
    /\ UNCHANGED <<tz, now, person, tp, modelVars>>

\* Person.fromJSON(obj) with the object the toJSON() call before it returned
CallPersonFromJSON ==
    /\ op = "Person.toJSON" /\ ~threw
    /\ Called("Person.fromJSON", ret, PersonFromJSON(ret, now))
    /\ UNCHANGED <<tz, now, person, tp, modelVars>>

NextPerson ==
    \/ Tick
    \/ CallPersonToJSON
    \/ CallPersonFromJSON
    \/ /\ Fresh
       /\ \E u \in PersonUriInputs, f \in PersonNameInputs,
             l \in PersonNameInputs, b \in BirthDateInputs :
          PersonConstruct([firstName |-> f,
                           lastName |-> l,
                           birthDate |-> b,
                           uri |-> u])
    \/ \E v \in PersonNameInputs : SetFirstName(v)
    \/ \E v \in PersonNameInputs : SetLastName(v)
    \/ \E v \in BirthDateInputs : SetBirthDate(v)
    \/ \E r \in ReferenceDates : CallGetAge(r)
    \/ CallPersonValidate
    \/ \E t \in DateObjects : BirthDateSetTime(t)

SpecPerson == Init /\ [][NextPerson]_vars

-----------------------------------------------------------------------------
(* Operations on the TransformedPerson *)

\* a call that builds the TransformedPerson
TPBuild(o, a, r) ==
    /\ ~tp.live
    /\ tp' = IF r.threw THEN tp ELSE r.val
    /\ Called(o, a, r)
    /\ UNCHANGED <<tz, now, person, modelVars>>

\* Direct construction is followed from the initial state, as for the
\* Person; once a Person exists the TransformedPerson comes from fromPerson.
TPConstruct(cfg) ==
    /\ Fresh
    /\ TPBuild("new TransformedPerson", cfg, NewTP(cfg))

CallFromJSON(obj) ==
    /\ Fresh
    /\ TPBuild("fromJSON", obj, TPFromJSON(obj))

\* Person.fromTurtle(turtle)
CallPersonFromTurtle(turtle) ==
    /\ ~person.live
    /\ Fresh
    /\ LET r == PersonFromTurtle(turtle, now)
       IN  /\ person' = IF r.threw THEN person ELSE r.val
           /\ Called("Person.fromTurtle", Str(turtle), r)
    /\ UNCHANGED <<tz, now, tp, modelVars>>

CallFromJsonLd(jsonLd) ==
    /\ Fresh
    /\ TPBuild("fromJsonLd", jsonLd, TPFromJsonLd(jsonLd))

CallFromTurtle(turtle) ==
    /\ Fresh
    /\ TPBuild("fromTurtle", Str(turtle), TPFromTurtle(turtle))

CallFromPerson(referenceDate) ==
    /\ person.live
    /\ TPBuild("fromPerson", referenceDate,
               FromPerson(person, RefTime(referenceDate)))

TPSetter(o, v, r) ==
    /\ tp.live
    /\ tp' = IF r.threw THEN tp ELSE r.val
    /\ Called(o, v, r)
    /\ UNCHANGED <<tz, now, person, modelVars>>

SetTPFirstName(v) == TPSetter("firstName=", v, TPSetFirstName(tp, v))

SetTPLastName(v) == TPSetter("lastName=", v, TPSetLastName(tp, v))

SetTPFullName(v) == TPSetter("fullName=", v, TPSetFullName(tp, v))

SetTPAge(v) == TPSetter("age=", v, TPSetAge(tp, v))

CallTPValidate ==
    /\ tp.live
    /\ Called("validate", Undefined, Return(TPValidate(tp)))
    /\ UNCHANGED <<tz, now, person, tp, modelVars>>

\* the configurations of the samples and of the invalid fixtures
TPSampleInputs ==
    { [firstName |-> Str(Jane), lastName |-> Str(Doe), uri |-> u,
       age |-> a, fullName |-> n] :
         u \in TPUriInputs,
         a \in {NumV(Num(26)), NumV(Num(-5)), NumV(Num(200)), NumV(NaN)},
         n \in FullNameInputs(Str(Jane), Str(Doe)) }

\* the fields written out as Turtle text
TurtleSamples ==
    { [firstName |-> f, lastName |-> Doe, uri |-> u, age |-> a,
       fullName |-> n] :
         f \in {Jane, <<>>},
         u \in {TargetNs \o <<"J","a","n","e","D","o","e">>, <<"u","r","n",":","p",":","7">>},
         a \in {Num(0), Num(26), Half(26), NaN, Num(-5), Num(200)},
         n \in {Join(Jane, Doe), <<"J","o","h","n"," ","S","m","i","t","h">>} }

TurtleInputs == { TPToTurtle(t, b) : t \in TurtleSamples, b \in BOOLEAN }

\* the patterns Person.fromTurtle looks for
PersonPatterns == {"type", "firstName", "lastName", "birthDate"}

\* the Turtle text of Jane Doe with the lines of the patterns in S only
PersonTurtleWith(S) ==
    (IF "type" \in S
     THEN KwPersonSubject \o Jane \o Doe \o <<" ", "a", " ">> \o KwPersonType
          \o <<" ">> \o Indent
     ELSE <<>>)
    \o (IF "firstName" \in S
        THEN KwFirstName \o <<" ", "\"">> \o Jane \o <<"\"", " ">> \o Indent
        ELSE <<>>)
    \o (IF "lastName" \in S
        THEN KwLastName \o <<" ", "\"">> \o Doe \o <<"\"", " ">> \o Indent
        ELSE <<>>)
    \o (IF "birthDate" \in S
        THEN KwBirthDate \o <<" ", "\"">> \o IsoDate(2000, 1, 1) \o <<"\"">>
             \o KwXsdDate \o <<" ">>
        ELSE <<>>)
    \o <<".">>

\* Turtle texts handed to Person.fromTurtle: with and without each pattern,
\* and what toTurtle writes for a birth date in the past and in the future
PersonTurtleInputs ==
    { PersonTurtleWith(S) : S \in SUBSET PersonPatterns }
    \cup
    { PersonToTurtle([firstName |-> Jane, lastName |-> Doe,
                      birthDate |-> DateParse(IsoDate(y, 1, 1)),
                      uri |-> SourceNs \o Jane \o Doe], b).val :
        y \in {2000, 2030}, b \in BOOLEAN }

\* the patterns TransformedPerson.fromTurtle looks for
TPPatterns == {"type", "firstName", "lastName", "fullName", "age"}

\* the Turtle text of Jane Doe, 26, with the lines of the patterns in S only
TPTurtleWith(S) ==
    (IF "type" \in S
     THEN KwSubject \o Jane \o Doe \o <<" ", "a", " ">> \o KwType
          \o <<" ">> \o Indent
     ELSE <<>>)
    \o (IF "firstName" \in S
        THEN KwFirstName \o <<" ", "\"">> \o Jane \o <<"\"", " ">> \o Indent
        ELSE <<>>)
    \o (IF "lastName" \in S
        THEN KwLastName \o <<" ", "\"">> \o Doe \o <<"\"", " ">> \o Indent
        ELSE <<>>)
    \o (IF "fullName" \in S
        THEN KwFullName \o <<" ", "\"">> \o Join(Jane, Doe) \o <<"\"", " ">>
             \o Indent
        ELSE <<>>)
    \o (IF "age" \in S
        THEN KwAge \o <<" ">> \o NumToString(Num(26)) \o <<" ">>
        ELSE <<>>)
    \o <<".">>

\* the same with the key '@id' for the URI
JsonLdOf(cfg) ==
    [firstName |-> cfg.firstName, lastName |-> cfg.lastName,
     age |-> cfg.age, fullName |-> cfg.fullName, id |-> cfg.uri]

NextTP ==
    \/ Fresh /\ \E cfg \in SourcePersonInputs : PersonConstruct(cfg)
    \/ \E r \in ReferenceDates : CallFromPerson(r)
    \/ /\ Fresh
       /\ \E u \in TPUriInputs, f \in TPNameInputs, l \in TPNameInputs,
             a \in AgeInputs :
          \E n \in FullNameInputs(f, l) :
              TPConstruct([firstName |-> f, lastName |-> l, uri |-> u,
                           age |-> a, fullName |-> n])
    \/ Fresh /\ \E cfg \in TPSampleInputs : CallFromJSON(cfg)
    \/ Fresh /\ \E cfg \in TPSampleInputs : CallFromJsonLd(JsonLdOf(cfg))
    \/ \E t \in PersonTurtleInputs : CallPersonFromTurtle(t)
    \/ /\ Fresh
       /\ \E t \in TurtleInputs \cup {TPTurtleWith(S) : S \in SUBSET TPPatterns} :
             CallFromTurtle(t)
    \/ \E v \in TPSetterNames : SetTPFirstName(v)
    \/ \E v \in TPSetterNames : SetTPLastName(v)
    \/ /\ tp.live
       /\ \E v \in FullNameInputs(Str(tp.firstName), Str(tp.lastName)) :
             SetTPFullName(v)
    \/ \E v \in TPSetterAges : SetTPAge(v)
    \/ CallTPValidate

SpecTP == Init /\ [][NextTP]_vars

-----------------------------------------------------------------------------
(* Properties of the Person *)

\* x <= y of JavaScript: false when either side is NaN
JsLe(x, y) == ~IsNaN(x) /\ ~IsNaN(y) /\ Twice(x) <= Twice(y)

\* a Date with a time value, or a string that new Date() reads as one
ValidDateInput(v) ==
    \/ v.ty = "string" /\ ~IsNaN(DateParse(v.s))
    \/ IsDate(v) /\ ~IsNaN(v.time)

\* the time value new Date(v) / v has
Resolved(v) == IF v.ty = "string" THEN DateParse(v.s) ELSE v.time

\* missing, not a string, empty or white space only
NoName(v) ==
    \/ v.ty # "string"
    \/ \A i \in 1..Len(v.s) : v.s[i] \in WhiteSpace

\* not empty, no white space at either end
Trimmed(s) == s # <<>> /\ s[1] \notin WhiteSpace /\ s[Len(s)] \notin WhiteSpace

\* C3: at every moment the birth date of a Person is at or before the
\* current time.
C3_BirthDateNeverAfterNow ==
    person.live => JsLe(person.birthDate, Num(now))

\* C4: constructing a Person with a birth date that is missing or is no
\* valid date or date string throws, and no Person holds a birth date that
\* is not a calendar date.
C4_InvalidBirthDateRejected ==
    /\ (op = "new Person" /\ ~ValidDateInput(arg.birthDate)) => threw
    /\ person.live => ~IsNaN(person.birthDate)

\* C5: constructing a Person throws whenever the resolved birth date is
\* strictly after the clock value read by the constructor (2030-01-01 is
\* such a date), and with valid names a date at or before that clock value is
\* accepted and stored; the comparison is on time values, not calendar days.
C5_FutureBirthDateRejected ==
    op = "new Person" =>
        /\ (arg.birthDate.ty \in {"string", "object"}
              /\ Resolved(arg.birthDate) # NaN
              /\ Resolved(arg.birthDate).n > now) => threw
        /\ arg.birthDate = Str(IsoDate(2030, 1, 1)) => threw
        /\ (/\ ~NoName(arg.firstName) /\ ~NoName(arg.lastName)
            /\ ValidDateInput(arg.birthDate)
            /\ Resolved(arg.birthDate).n <= now)
           => (~threw /\ person.live
                 /\ person.birthDate = Resolved(arg.birthDate))

\* a Date of the current calendar day but a later time of day is rejected
C5_Witness ==
    /\ op = "new Person" /\ threw
    /\ ret = "birthDate must be in the past"
    /\ IsDate(arg.birthDate)
    /\ arg.birthDate.time = Num(now + 1)
    /\ (now + 1) \div TicksPerDay = now \div TicksPerDay

\* C6: constructing a Person throws when firstName or lastName is missing,
\* not a string, empty or white space only; otherwise the stored names are
\* the trimmed inputs, and every Person has names that are not empty and
\* have no white space at either end.
C6_NamesValidatedAndTrimmed ==
    /\ op = "new Person" =>
          /\ (NoName(arg.firstName) \/ NoName(arg.lastName)) => threw
          /\ ~threw => /\ person.firstName = Trim(arg.firstName.s)
                       /\ person.lastName = Trim(arg.lastName.s)
    /\ person.live => Trimmed(person.firstName) /\ Trimmed(person.lastName)

\* a name with white space around it was accepted and stored trimmed
C6_Witness ==
    /\ op = "new Person" /\ ~threw
    /\ arg.lastName.s # person.lastName
    /\ person.lastName = Doe

\* C7: getAge(referenceDate) is referenceYear - birthYear, less 1 exactly
\* when (referenceMonth, referenceDay) is before (birthMonth, birthDay); born
\* 2000-01-01 gives 26 at 2026-01-10, 25 at 2025-12-31, and the birthday
\* itself is not decremented.
C7_AgeRule ==
    op = "getAge" =>
        LET b == person.birthDate
            r == RefTime(arg)
        IN  /\ (~IsNaN(b) /\ ~IsNaN(r)) =>
                 LET bc == LocalCivil(b.n)
                     rc == LocalCivil(r.n)
                     before == rc.m < bc.m \/ (rc.m = bc.m /\ rc.d < bc.d)
                 IN  ret = Num(rc.y - bc.y - (IF before THEN 1 ELSE 0))
            /\ (b = DateParse(IsoDate(2000, 1, 1))
                  /\ r = DateParse(IsoDate(2026, 1, 10))) => ret = Num(26)
            /\ (b = DateParse(IsoDate(2000, 1, 1))
                  /\ r = DateParse(IsoDate(2025, 12, 31))) => ret = Num(25)
            /\ (b = DateParse(IsoDate(2000, 1, 1))
                  /\ r = DateParse(IsoDate(2026, 1, 1))) => ret = Num(26)

\* born 2000-01-01, asked on 2025-12-31: the birthday is not yet reached
C7_Witness ==
    /\ op = "getAge"
    /\ person.birthDate = DateParse(IsoDate(2000, 1, 1))
    /\ arg = DateV(DateParse(IsoDate(2025, 12, 31)))
    /\ ret = Num(25)

-----------------------------------------------------------------------------
(* Properties of the TransformedPerson *)

\* the call built or tried to build the TransformedPerson from a field map
FromFields == op \in {"new TransformedPerson", "fromJSON", "fromJsonLd"}

\* 0 <= x <= 150
InAgeRange(x) == JsLe(Num(MinAge), x) /\ JsLe(x, Num(MaxAge))

\* two runs of letters with one space between them
TwoLetterTokens(s) ==
    /\ Cardinality({i \in 1..Len(s) : s[i] = " "}) = 1
    /\ Len(s) >= 3 /\ s[1] # " " /\ s[Len(s)] # " "
    /\ \A i \in 1..Len(s) : s[i] = " " \/ s[i] \in Letters

\* s begins with pre
StartsWith(s, pre) == Len(s) >= Len(pre) /\ SubSeq(s, 1, Len(pre)) = pre

\* C1: fullName of a TransformedPerson is firstName, a space, lastName after
\* construction and after every setter call, thrown or not; a successful set
\* of firstName (lastName) to v leaves trim(v) in that name and in fullName.
C1_FullNameConsistent ==
    /\ tp.live => tp.fullName = tp.firstName \o <<" ">> \o tp.lastName
    /\ (op = "firstName=" /\ ~threw) =>
          /\ tp.firstName = Trim(arg.s)
          /\ tp.fullName = Trim(arg.s) \o <<" ">> \o tp.lastName
    /\ (op = "lastName=" /\ ~threw) =>
          /\ tp.lastName = Trim(arg.s)
          /\ tp.fullName = tp.firstName \o <<" ">> \o Trim(arg.s)

\* firstName was set from a value with white space around it
C1_Witness ==
    /\ op = "firstName=" /\ ~threw
    /\ arg.s # tp.firstName
    /\ tp.firstName = Doe
    /\ tp.fullName = Doe \o <<" ">> \o tp.lastName

\* C2: the age of a TransformedPerson is always within 0..150, and the
\* constructor and the age setter throw on every value outside that range.
C2_AgeInRange ==
    /\ tp.live => InAgeRange(tp.age)
    /\ (FromFields /\ arg.age.ty = "number" /\ ~InAgeRange(arg.age.x)) => threw
    /\ (op = "age=" /\ arg.ty = "number" /\ ~InAgeRange(arg.x)) => threw

\* C8 as stated: for every Person and reference date fromPerson returns a
\* record with the age getAge gives and the names and full name of the
\* Person.
C8_FromPersonAlwaysReturns ==
    op = "fromPerson" =>
        /\ ~threw
        /\ tp.live
        /\ tp.age = GetAge(person.birthDate, RefTime(arg))
        /\ tp.fullName = PersonFullName(person)
        /\ tp.firstName = person.firstName
        /\ tp.lastName = person.lastName

\* C8 amended: fromPerson throws exactly when getAge(referenceDate) is a
\* number below 0 or above 150; otherwise it returns a record with that
\* age and with the names and the full name of the Person.
C8_FromPersonCopies ==
    op = "fromPerson" =>
        LET age == GetAge(person.birthDate, RefTime(arg))
        IN  /\ threw <=> (JsLt(age, Num(MinAge)) \/ JsGt(age, Num(MaxAge)))
            /\ ~threw =>
                  /\ tp.live /\ ret = tp
                  /\ tp.age = age
                  /\ tp.fullName = PersonFullName(person)
                  /\ tp.firstName = person.firstName
                  /\ tp.lastName = person.lastName

\* born 2000-01-01 and derived at 2025-12-31: age 25
C8_Witness ==
    /\ op = "fromPerson" /\ ~threw
    /\ arg = DateV(DateParse(IsoDate(2025, 12, 31)))
    /\ person.birthDate = DateParse(IsoDate(2000, 1, 1))
    /\ tp.age = Num(25)
    /\ tp.fullName = Join(Jane, Doe)

\* C9: the URI of the record fromPerson returns is the target namespace
\* followed by the rest of the source URI when the source URI starts with
\* the source namespace, and is the unchanged source URI otherwise.
C9_UriMappedByPrefixOnly ==
    (op = "fromPerson" /\ ~threw) =>
        IF StartsWith(person.uri, SourceNs)
        THEN tp.uri = TargetNs \o SubSeq(person.uri, Len(SourceNs) + 1,
                                         Len(person.uri))
        ELSE tp.uri = person.uri

\* C10: the constructor accepts consistent fields whatever the shape of the
\* full name, and validate() returns valid exactly when fullName is two
\* runs of letters with one space between; its only possible error is the
\* one of the pattern.
C10_ValidateIsThePattern ==
    /\ (/\ op = "new TransformedPerson"
        /\ ~NoName(arg.firstName) /\ ~NoName(arg.lastName)
        /\ arg.fullName.ty = "string"
        /\ Trim(arg.fullName.s)
             = Trim(arg.firstName.s) \o <<" ">> \o Trim(arg.lastName.s)
        /\ arg.age.ty = "number" /\ InAgeRange(arg.age.x))
       => (~threw /\ tp.live)
    /\ op = "validate" =>
          /\ ret.valid <=> TwoLetterTokens(tp.fullName)
          /\ ret.errors = IF TwoLetterTokens(tp.fullName)
                          THEN <<>> ELSE <<ErrFullNamePattern>>

\* a record with a digit in its name was built and validate() reports the
\* pattern only
C10_Witness ==
    /\ op = "validate"
    /\ \E i \in 1..Len(tp.fullName) : IsDigit(tp.fullName[i])
    /\ ~ret.valid
    /\ ret.errors = <<ErrFullNamePattern>>

\* C19: a set of fullName succeeds only when the trimmed value is the
\* current firstName, a space and the current lastName, and then no field
\* changes value; every other value, empty or not a string included, is
\* rejected with an error and changes nothing either.
C19_FullNameSetterOnlyConfirms ==
    [][ op' = "fullName=" =>
          LET same == IF arg'.ty = "string"
                      THEN Trim(arg'.s) = tp.firstName \o <<" ">> \o tp.lastName
                      ELSE FALSE
          IN  /\ threw' <=> ~same
              /\ tp' = tp ]_vars

\* the full name with white space around it was accepted
C19_Witness ==
    /\ op = "fullName=" /\ ~threw
    /\ arg.s # tp.fullName
    /\ Trim(arg.s) = tp.fullName
    /\ tp.fullName = tp.firstName \o <<" ">> \o tp.lastName

-----------------------------------------------------------------------------
(* Properties of the plain-object form of the Person *)

\* C17: for every Person reached by construction and setter calls, toJSON()
\* returns and fromJSON of its result returns a Person with the same uri,
\* firstName, lastName and birthDate; a second toJSON/fromJSON of that
\* Person gives the same Person again.
C17_PersonJSONRoundTrip ==
    /\ op = "Person.toJSON" => ~threw
    /\ op = "Person.fromJSON" =>
          /\ ~threw
          /\ ret.uri = person.uri
          /\ ret.firstName = person.firstName
          /\ ret.lastName = person.lastName
          /\ ret.birthDate = person.birthDate
          /\ LET again == PersonToJSON(ret, now)
             IN  /\ ~again.threw
                 /\ PersonFromJSON(again.val, now) = Return(ret)

-----------------------------------------------------------------------------
(* Operations on the DataModel *)

World ==
    [registry |-> registry, instances |-> instances,
     transformers |-> transformers, validators |-> validators, heap |-> heap]

\* the caller holds no array
NoArray == Array(<<>>, "")

\* the call of operation o with input a had outcome r and leaves the array h
\* with the caller
Did(o, a, r, h) ==
    /\ Called(o, a, r)
    /\ registry' = r.w.registry
    /\ instances' = r.w.instances
    /\ transformers' = r.w.transformers
    /\ validators' = r.w.validators
    /\ heap' = r.w.heap
    /\ held' = h
    /\ UNCHANGED <<tz, now, person, tp, sent>>

CallRegisterClass(name, classConstructor, options) ==
    Did("registerClass",
        [name |-> name, options |-> options, constructor |-> classConstructor],
        RegisterClass(World, name, classConstructor, options), NoArray)

CallCreate(className, data) ==
    /\ Len(heap) < MaxObjects
    /\ LET r == Create(World, className, data, now)
       IN  Did("create", [data |-> data, className |-> className], r,
               NoArray)

CallTransform(instance, targetClassName, options) ==
    /\ Len(heap) < MaxObjects
    /\ LET r == Transform(World, instance, targetClassName, options, now)
       IN  Did("transform",
               [options |-> options,
                className |-> targetClassName,
                instance |-> instance], r, NoArray)

CallValidateInstance(className, instance) ==
    Did("validateInstance", [className |-> className, instance |-> instance],
        ValidateInstance(World, className, instance, now), NoArray)

CallValidateAll(className) ==
    Did("validateAll", [className |-> className],
        ValidateAll(World, className, now), NoArray)

\* the caller keeps the array that is returned
CallGetInstances(className) ==
    LET r == GetInstances(World, className)
    IN  Did("getInstances", [className |-> className], r,
            IF r.threw THEN NoArray ELSE r.val)

CallFind(className, predicate) ==
    LET r == Find(World, className, predicate)
    IN  Did("find", [className |-> className, predicate |-> predicate], r,
            IF r.threw THEN NoArray ELSE r.val)

\* the caller keeps exported.instances
DidExport(className, r) ==
    Did("exportToJSON", [className |-> className], r,
        IF r.threw \/ className = "" THEN NoArray
        ELSE Array(r.val.instances, ""))

CallExportToJSON(className) ==
    DidExport(className, ExportToJSON(World, className, now))

\* importFromJSON with the array of plain objects the caller holds
CallImportFromJSON(className) ==
    /\ held.items # <<>>
    /\ \A i \in 1..Len(held.items) : ~IsRef(held.items[i])
    /\ Len(heap) + Len(held.items) <= MaxObjects
    /\ LET r == ImportFromJSON(World, className, held.items, now)
       IN  Did("importFromJSON", [data |-> held.items, className |-> className],
               r, NoArray)

\* importFromJSON with an array the caller wrote down
CallImportData(className, data) ==
    LET r == ImportFromJSON(World, className, data, now)
    IN  /\ Len(r.w.heap) <= MaxObjects
        /\ Did("importFromJSON", [data |-> data, className |-> className],
               r, NoArray)

\* the internal array is replaced by a new one: an array that was the
\* internal one stays with the caller as it is
CallClearInstances(className) ==
    Did("clearInstances", [className |-> className],
        ClearInstances(World, className),
        IF held.alias = className THEN Array(held.items, "") ELSE held)

CallClearAll ==
    Did("clearAll", Undefined, ClearAll(World), Array(held.items, ""))

CallExportToTurtle(className) ==
    Did("exportToTurtle", [className |-> className],
        ExportToTurtle(World, className), NoArray)

CallGetStatistics ==
    Did("getStatistics", Undefined, GetStatistics(World), NoArray)

\* a setter of the object at index i of the heap was called with value v
\* and had outcome r; the caller keeps no array
SetOnHeap(o, i, v, r) ==
    /\ heap' = IF r.threw THEN heap ELSE [heap EXCEPT ![i] = r.val]
    /\ Called(o, [value |-> v, instance |-> Ref(i)], r)
    /\ held' = NoArray
    /\ UNCHANGED <<tz, now, person, tp, registry, instances, transformers,
                   validators, sent>>

\* instance.firstName = v
HeapSetFirstName(i, v) ==
    /\ i \in DOMAIN heap
    /\ IF IsPersonObj(heap[i])
       THEN SetOnHeap("Person.firstName=", i, v, PersonSetFirstName(heap[i], v))
       ELSE SetOnHeap("firstName=", i, v, TPSetFirstName(heap[i], v))

\* instance.lastName = v
HeapSetLastName(i, v) ==
    /\ i \in DOMAIN heap
    /\ IF IsPersonObj(heap[i])
       THEN SetOnHeap("Person.lastName=", i, v, PersonSetLastName(heap[i], v))
       ELSE SetOnHeap("lastName=", i, v, TPSetLastName(heap[i], v))

\* person.birthDate = v
HeapSetBirthDate(i, v) ==
    /\ i \in DOMAIN heap
    /\ IsPersonObj(heap[i])
    /\ SetOnHeap("Person.birthDate=", i, v,
                 PersonSetBirthDate(heap[i], v, now))

\* transformed.fullName = v
HeapSetFullName(i, v) ==
    /\ i \in DOMAIN heap
    /\ ~IsPersonObj(heap[i])
    /\ SetOnHeap("fullName=", i, v, TPSetFullName(heap[i], v))

\* transformed.age = v
HeapSetAge(i, v) ==
    /\ i \in DOMAIN heap
    /\ ~IsPersonObj(heap[i])
    /\ SetOnHeap("age=", i, v, TPSetAge(heap[i], v))

\* What the caller does to the array a call has just returned: push(x),
\* shift(), reverse().  An array that is the internal list of a class
\* changes that list.  The array is the caller's own, so one change is
\* followed; the caller lets go of the array with its next call, except
\* over clearInstances and clearAll, after which it may import it again.
HeldChange(o, x, items) ==
    /\ op \in {"getInstances", "find", "exportToJSON"} /\ ~threw
    /\ held' = Array(items, held.alias)
    /\ instances' = IF held.alias # "" /\ MapHas(instances, held.alias)
                    THEN MapSet(instances, held.alias, items)
                    ELSE instances
    /\ Called(o, x, Return(Undefined))
    /\ UNCHANGED <<tz, now, person, tp, registry, transformers, validators,
                   heap, sent>>

HeldPush(x) == HeldChange("array.push", x, Append(held.items, x))

HeldShift ==
    /\ held.items # <<>>
    /\ HeldChange("array.shift", Undefined, Tail(held.items))

HeldReverse ==
    /\ Len(held.items) > 1
    /\ HeldChange("array.reverse", Undefined,
                  [i \in 1..Len(held.items) |->
                      held.items[Len(held.items) + 1 - i]])

-----------------------------------------------------------------------------
(* Inputs of the DataModel *)

\* a field map of samplePersonData
SamplePerson(first, last, born) ==
    [firstName |-> Str(first), lastName |-> Str(last),
     birthDate |-> Str(born), uri |-> Str(SourceNs \o first \o last)]

JaneDoe == SamplePerson(Jane, Doe, IsoDate(2000, 1, 1))

JohnSmith == SamplePerson(<<"J","o","h","n">>, <<"S","m","i","t","h">>, IsoDate(1985, 6, 15))

AliceJohnson == SamplePerson(<<"A","l","i","c","e">>, <<"J","o","h","n","s","o","n">>, IsoDate(1992, 3, 22))

BobWilliams == SamplePerson(<<"B","o","b">>, <<"W","i","l","l","i","a","m","s">>, IsoDate(1978, 11, 30))

CarolBrown == SamplePerson(<<"C","a","r","o","l">>, <<"B","r","o","w","n">>, IsoDate(2005, 7, 4))

\* field maps handed to a class whose constructor is Person
ModelPersonData ==
    { JaneDoe,
      [JaneDoe EXCEPT !.firstName = Undefined],
      [JaneDoe EXCEPT !.birthDate = DateV(Num(Ts(2000, 1, 1, 1))),
                      !.uri = Undefined] }

\* field maps handed to a class whose constructor is TransformedPerson
ModelTPData ==
    { [firstName |-> Str(Jane), lastName |-> Str(Doe), uri |-> Undefined,
       age |-> NumV(Num(a)), fullName |-> Str(Join(Jane, Doe))] :
         a \in {26, -5} }

\* arrays of field maps handed to importFromJSON: two items, and four whose
\* third has no first name
ImportInputs ==
    { <<JaneDoe,
        [JaneDoe EXCEPT !.birthDate = DateV(Num(Ts(2000, 1, 1, 1))),
                        !.uri = Undefined]>>,
      <<[JaneDoe EXCEPT !.birthDate = DateV(Num(Ts(2000, 1, 1, 1))),
                        !.uri = Undefined],
        JaneDoe,
        [JaneDoe EXCEPT !.firstName = Undefined],
        JaneDoe>> }

\* the field maps for the constructor a class name stands for
DataFor(className) ==
    IF ~MapHas(registry, className) THEN {JaneDoe}
    ELSE IF MapGet(registry, className).constructor = "TransformedPerson"
    THEN ModelTPData
    ELSE ModelPersonData

\* class names of the calls; "Employee" is not registered at the start
ModelClassNames == {"Person", "TransformedPerson", "Employee"}

\* what a caller registers: a second class of TransformedPersons with the
\* transformer and a validator
RegisterInputs ==
    { [options |-> [rdfType |-> "http://example.com/ns/Class#Employee",
                    namespace |-> "Person",
                    transformer |-> FromPersonTransformer,
                    validator |-> RejectingValidator],
       constructor |-> "TransformedPerson"] }

\* the reference date of the tests
ReferenceDate == DateV(DateParse(IsoDate(2026, 1, 10)))

\* options of transform: the reference date, and a date before the birth dates
TransformOptions ==
    { [referenceDate |-> ReferenceDate],
      [referenceDate |-> DateV(DateParse(IsoDate(1999, 6, 1)))] }

HeapRefs == { Ref(i) : i \in 1..Len(heap) }

\* values handed to the setters of the first object while it is the only one
HeapSetterNames == { Undefined, Str(<<"A","n","n","e","-","M","a","r","i","e">>) }

HeapSetterLastNames == { Str(<<" ">> \o Doe \o <<"\t">>), Str(<<" ">>) }

HeapSetterBirthDates == { Str(IsoDate(2000, 1, 1)), NumV(Num(5)) }

HeapSetterFullName == Str(Join(Jane, Doe))

HeapSetterAges == { NumV(Num(26)), NumV(Num(200)) }

NextModel ==
    \/ \E n \in {"Person", "Employee"}, c \in RegisterInputs :
          CallRegisterClass(n, c.constructor, c.options)
    \/ \E n \in ModelClassNames : \E d \in DataFor(n) : CallCreate(n, d)
    \/ \E x \in HeapRefs, n \in ModelClassNames, o \in TransformOptions :
          /\ o.referenceDate = ReferenceDate \/ n = "TransformedPerson"
          /\ CallTransform(x, n, o)
    \/ \E n \in ModelClassNames, x \in {Ref(Len(heap)), PlainObject} :
          (IsRef(x) => heap # <<>>) /\ CallValidateInstance(n, x)
    \/ \E n \in {"TransformedPerson", "Employee"} : CallValidateAll(n)
    \/ \E n \in {"Person", "Employee"} : CallGetInstances(n)
    \/ CallFind("TransformedPerson", FirstNameIs(Jane))
    \/ \E n \in {"Person", "Employee", ""} : CallExportToJSON(n)
    \/ \E n \in {"TransformedPerson", "Employee", ""} : CallExportToTurtle(n)
    \/ \E n \in ModelClassNames : CallImportFromJSON(n)
    \/ \E d \in ImportInputs : CallImportData("Person", d)
    \/ \E n \in ModelClassNames : CallClearInstances(n)
    \/ CallClearAll
    \/ CallGetStatistics
    \/ heap # <<>> /\ HeldPush(Ref(1))
    \/ HeldShift
    \/ HeldReverse
    \/ Len(heap) = 1 /\ \E v \in HeapSetterNames : HeapSetFirstName(1, v)
    \/ Len(heap) = 1 /\ \E v \in HeapSetterLastNames : HeapSetLastName(1, v)
    \/ Len(heap) = 1 /\ \E v \in HeapSetterBirthDates : HeapSetBirthDate(1, v)
    \/ Len(heap) = 1 /\ HeapSetFullName(1, HeapSetterFullName)
    \/ Len(heap) = 1 /\ \E v \in HeapSetterAges : HeapSetAge(1, v)

\* the DataModel is followed in UTC
InitModel == Init /\ tz = 0

SpecModel == InitModel /\ [][NextModel]_vars

-----------------------------------------------------------------------------
(* FusekiConnector: insert, save and saveAll (src/fuseki-connector.js).   *)
(* A call is one step: the Promise it returns is settled with the answer  *)
(* the server gives to its request.  sent is the list of the requests     *)
(* issued so far, each with the answer it got.                            *)

\* requests of one run
MaxRequests == 2

\* the result of a connector call: settled with val, rejected when threw,
\* with the requests issued so far
Settled(requests, r) == [threw |-> r.threw, sent |-> requests, val |-> r.val]

\* what fetch gives: a response that is ok, one that is not, or a rejection
Responses == { [ok |-> TRUE, status |-> 200], [ok |-> FALSE, status |-> 500],
               [ok |-> FALSE, status |-> 0] }

\* fetch itself failed
NetworkFailure(response) == response.status = 0

\* getGspEndpoint(graph)
GetGspEndpoint(graph) ==
    IF ~Falsy(graph) THEN <<"data?graph=", graph.s>> ELSE <<"data?default">>

\* insert(data, contentType, graph) with the answer response to its fetch
FusekiInsert(requests, data, contentType, graph, response) ==
    LET issued == Append(requests, [response    |-> response,
                                    contentType |-> contentType,
                                    method      |-> "POST",
                                    endpoint    |-> GetGspEndpoint(graph),
                                    body        |-> data])
    IN  IF NetworkFailure(response)
        THEN Settled(issued, Throw("Insert error: fetch failed"))
        ELSE IF ~response.ok
        THEN Settled(issued, Throw("Insert error: Insert failed: 500"))
        ELSE Settled(issued, Return(Undefined))

\* the object has a toTurtle method: it is a Person or a TransformedPerson
HasToTurtle(object) == "firstName" \in DOMAIN object

\* save(object, graph)
FusekiSave(requests, object, graph, response) ==
    IF ~HasToTurtle(object)
    THEN Settled(requests, Throw("Object must have a toTurtle() method"))
    ELSE LET turtle == ToTurtleOf(object, TRUE)
         IN  IF turtle.threw THEN Settled(requests, turtle)
             ELSE FusekiInsert(requests, turtle.val, "text/turtle", graph,
                               response)

\* the callback of objects.map in saveAll
SaveAllPart(obj, index) ==
    IF ~HasToTurtle(obj)
    THEN Throw("All objects must have a toTurtle() method")
    ELSE ToTurtleOf(obj, index = 0)

\* the parts joined and inserted, or the error of the part that threw
InsertParts(requests, turtleParts, graph, response) ==
    IF turtleParts.threw THEN Settled(requests, turtleParts)
    ELSE FusekiInsert(requests, JoinParts(turtleParts.val), "text/turtle",
                      graph, response)

\* saveAll(objects, graph)
FusekiSaveAll(requests, objects, graph, response) ==
    InsertParts(requests,
                MapOutcomes([i \in 1..Len(objects) |->
                               SaveAllPart(objects[i], i - 1)]),
                graph, response)

\* the call of connector operation o with input a settled as r
Connector(o, a, r) ==
    /\ Len(sent) < MaxRequests
    /\ Called(o, a, r)
    /\ sent' = r.sent
    /\ UNCHANGED <<tz, now, person, tp, registry, instances, transformers,
                   validators, heap, held>>

CallSave(object, graph, response) ==
    Connector("save", [object |-> object, graph |-> graph],
              FusekiSave(sent, object, graph, response))

CallSaveAll(objects, graph, response) ==
    Connector("saveAll", [graph |-> graph, objects |-> objects],
              FusekiSaveAll(sent, objects, graph, response))

\* field maps of the Persons handed to the connector
FusekiPersonInputs ==
    { [firstName |-> Str(Jane), lastName |-> Str(Doe),
       birthDate |-> b, uri |-> Undefined] :
         b \in { Str(IsoDate(2000, 1, 1)),
                 Str(<<"n","o","t","-","a","-","d","a","t","e">>) } }

\* the objects at hand: the Person, the TransformedPerson, and an object
\* without a toTurtle method
ObjectsAtHand ==
    {PlainObject} \cup (IF person.live THEN {person} ELSE {})
                  \cup (IF tp.live THEN {tp} ELSE {})

\* the lists of at most two objects at hand
ListsAtHand ==
    {<<>>} \cup { <<x, y>> : x \in ObjectsAtHand, y \in ObjectsAtHand }

NextFuseki ==
    \/ \E cfg \in FusekiPersonInputs : PersonConstruct(cfg)
    \/ CallFromPerson(DateV(DateParse(IsoDate(2026, 1, 10))))
    \/ \E x \in ObjectsAtHand, r \in Responses : CallSave(x, Undefined, r)
    \/ \E l \in ListsAtHand, r \in Responses : CallSaveAll(l, Undefined, r)

SpecFuseki == InitModel /\ [][NextFuseki]_vars

-----------------------------------------------------------------------------
(* Properties of the DataModel *)

\* the instance list of class n; none is the empty list
ListOf(m, n) == IF MapHas(m, n) THEN MapGet(m, n) ELSE <<>>

\* every class but n has the list it had
ListsKept(n) ==
    \A m \in ModelClassNames \ {n} :
        /\ MapHas(instances', m) <=> MapHas(instances, m)
        /\ ListOf(instances', m) = ListOf(instances, m)

\* the same, and no list came or went
OthersKept(n) == MapKeys(instances') = MapKeys(instances) /\ ListsKept(n)

\* C12: create(name, data) throws and leaves every instance list as it was
\* when name is not registered; when the constructor throws, its error comes
\* out unchanged and every list is as it was; otherwise the new instance is
\* appended at the end of name's list, no other list changes, and the
\* instance appended is the one returned.
C12_CreateAppendsOrThrows ==
    [][ op' = "create" =>
          LET n == arg'.className
          IN  IF ~MapHas(registry, n)
              THEN threw' /\ instances' = instances
              ELSE LET c == Construct(MapGet(registry, n).constructor,
                                      arg'.data, now)
                   IN  IF c.threw
                       THEN threw' /\ ret' = c.val /\ instances' = instances
                       ELSE /\ ~threw'
                            /\ IsRef(ret') /\ ret'.ref \notin DOMAIN heap
                            /\ heap'[ret'.ref] = c.val
                            /\ MapGet(instances', n)
                                 = Append(MapGet(instances, n), ret')
                            /\ OthersKept(n) ]_vars

\* a second Person was created and stands at the end of the list
C12_Witness ==
    /\ op = "create" /\ ~threw
    /\ arg.className = "Person"
    /\ Len(MapGet(instances, "Person")) = 2
    /\ MapGet(instances, "Person")[2] = ret
    /\ heap[ret.ref].firstName = Trim(arg.data.firstName.s)

\* C13: transform(instance, targetName, options) throws and leaves every
\* instance list as it was when targetName has no transformer or when the
\* transformer throws; otherwise the result of the transformer is appended
\* to targetName's list exactly when targetName has a list, no other list
\* (the one of the source class included) changes, and the result is
\* returned.
C13_TransformAppendsOrThrows ==
    [][ op' = "transform" =>
          LET n == arg'.className
          IN  IF ~MapHas(transformers, n)
              THEN threw' /\ instances' = instances
              ELSE LET t == ApplyTransformer(MapGet(transformers, n), World,
                                arg'.instance, arg'.options, now)
                   IN  IF t.threw
                       THEN threw' /\ ret' = t.val /\ instances' = instances
                       ELSE /\ ~threw'
                            /\ IsRef(ret') /\ ret'.ref \notin DOMAIN heap
                            /\ heap'[ret'.ref] = t.val
                            /\ IF MapHas(instances, n)
                               THEN MapGet(instances', n)
                                      = Append(MapGet(instances, n), ret')
                               ELSE ~MapHas(instances', n)
                            /\ OthersKept(n) ]_vars

\* a Person of the list was transformed: the Person list is as it was and
\* the result is the one element of the TransformedPerson list
C13_Witness ==
    /\ op = "transform" /\ ~threw
    /\ arg.className = "TransformedPerson"
    /\ MapGet(instances, "Person") = <<arg.instance>>
    /\ MapGet(instances, "TransformedPerson") = <<ret>>
    /\ ~IsPersonObj(heap[ret.ref])

\* C15: registerClass(name, ...) throws when name is registered and then
\* leaves the entry, the instance list, the transformer and the validator
\* of every name as they were; otherwise it adds the class with an empty
\* instance list; a name has an instance list exactly when it is registered.
C15_RegisterOnce ==
    /\ [](\A n \in ModelClassNames :
             MapHas(instances, n) <=> MapHas(registry, n))
    /\ [][ op' = "registerClass" =>
             LET n == arg'.name
             IN  IF MapHas(registry, n)
                 THEN /\ threw'
                      /\ registry' = registry
                      /\ instances' = instances
                      /\ transformers' = transformers
                      /\ validators' = validators
                 ELSE /\ ~threw'
                      /\ MapKeys(registry') = Append(MapKeys(registry), n)
                      /\ MapGet(registry', n).constructor = arg'.constructor
                      /\ MapGet(instances', n) = <<>>
                      /\ ListsKept(n)
                      /\ \A m \in ModelClassNames \ {n} :
                            MapHas(registry, m) =>
                               MapGet(registry', m) = MapGet(registry, m) ]_vars

\* registering Person again failed and the Person that had been created is
\* still in the list
C15_Witness ==
    /\ op = "registerClass" /\ threw
    /\ arg.name = "Person"
    /\ Len(MapGet(instances, "Person")) = 1
    /\ ~MapHas(registry, "Employee")
    /\ ~MapHas(validators, "Person")

\* what the calls that read the lists return in world w
Seen(w) ==
    [n \in ModelClassNames \cup {""} |->
        LET g == GetInstances(w, n)
            f == Find(w, n, FirstNameIs(Jane))
            v == ValidateAll(w, n, now)
            e == ExportToJSON(w, n, now)
            s == GetStatistics(w)
        IN  << <<g.threw, g.val>>, <<f.threw, f.val>>, <<v.threw, v.val>>,
               <<e.threw, e.val>>, <<s.threw, s.val>> >>]

\* C14: pushing to, removing from or reordering an array that getInstances
\* or find returned changes nothing of what getInstances, find, validateAll,
\* exportToJSON and getStatistics return afterwards.
C14_ReturnedListsAreCopies ==
    [][ op' \in {"array.push", "array.shift", "array.reverse"} =>
          Seen(World') = Seen(World) ]_vars

\* the caller reversed the array of the two Persons; the list of the
\* DataModel has them in the order of their creation
C14_Witness ==
    /\ op = "array.reverse"
    /\ Len(held.items) = 2
    /\ held.items = <<Ref(2), Ref(1)>>
    /\ MapGet(instances, "Person") = <<Ref(1), Ref(2)>>

\* C18: validateInstance(name, instance) returns the result of the validator
\* registered for name when there is one, otherwise the result of the
\* instance's own validate() when it has one, otherwise {valid: true,
\* errors: []}, for registered and unregistered names alike, and changes no
\* instance list.
C18_ValidateInstanceChoice ==
    /\ [](op = "validateInstance" =>
            /\ ~threw
            /\ ret = IF MapHas(validators, arg.className)
                     THEN RejectedResult
                     ELSE IF IsRef(arg.instance)
                     THEN IF IsPersonObj(heap[arg.instance.ref])
                          THEN PersonValidate(heap[arg.instance.ref], now)
                          ELSE TPValidate(heap[arg.instance.ref])
                     ELSE [errors |-> <<>>, valid |-> TRUE])
    /\ [][ op' = "validateInstance" =>
             instances' = instances /\ heap' = heap ]_vars

\* under a name that is not registered the TransformedPerson reported the
\* error of its own validate()
C18_Witness ==
    /\ op = "validateInstance" /\ ~threw
    /\ ~MapHas(registry, arg.className)
    /\ IsRef(arg.instance)
    /\ ~ret.valid
    /\ ret.errors = <<ErrFullNamePattern>>

\* a non-empty run of letters
LettersOnly(s) == s # <<>> /\ \A i \in 1..Len(s) : s[i] \in Letters

\* the reference date a transform with these options works with
ReferenceDateOf(options) ==
    IF options.referenceDate.ty = "undefined"
    THEN Num(now)
    ELSE options.referenceDate.time

\* Object.values(samplePersonData)
SamplePersonData == <<JaneDoe, JohnSmith, AliceJohnson, BobWilliams, CarolBrown>>

\* forEach(data => DataModel.create('Person', data))
RECURSIVE CreateEach(_, _)
CreateEach(w, datas) ==
    IF datas = <<>> THEN w
    ELSE CreateEach(Create(w, "Person", Head(datas), now).w, Tail(datas))

\* forEach(person => DataModel.transform(person, 'TransformedPerson', options))
RECURSIVE TransformEach(_, _, _)
TransformEach(w, people, options) ==
    IF people = <<>> THEN w
    ELSE TransformEach(Transform(w, Head(people), "TransformedPerson",
                                 options, now).w,
                       Tail(people), options)

\* the batch of the five samples: clearAll, create each, transform each at
\* the reference date 2026-01-10; the world it ends in
BatchProcessing ==
    LET w0 == ClearAll(World).w
        w1 == CreateEach(w0, SamplePersonData)
    IN  TransformEach(w1, GetInstances(w1, "Person").val.items,
                      [referenceDate |-> DateV(DateParse(IsoDate(2026, 1, 10)))])

\* C11: a Person whose names are runs of letters and whose age at the
\* reference date is in 0..150 is transformed to 'TransformedPerson' without
\* an error, and validateInstance('TransformedPerson', result) is
\* {valid: true, errors: []}; every successful transform appends exactly its
\* result to the TransformedPerson list; the five samples give five
\* elements, all valid.
C11_TransformedIsValid ==
    /\ [](/\ op = "transform"
          /\ arg.className = "TransformedPerson"
          /\ IsRef(arg.instance)
          /\ IsPersonObj(heap[arg.instance.ref])
          /\ LettersOnly(heap[arg.instance.ref].firstName)
          /\ LettersOnly(heap[arg.instance.ref].lastName)
          /\ InAgeRange(GetAge(heap[arg.instance.ref].birthDate,
                               ReferenceDateOf(arg.options)))
          => /\ ~threw
             /\ ValidateInstance(World, "TransformedPerson", ret, now).val
                  = [errors |-> <<>>, valid |-> TRUE])
    /\ [][ op' = "transform" /\ ~threw' /\ arg'.className = "TransformedPerson"
           => MapGet(instances', "TransformedPerson")
                = Append(MapGet(instances, "TransformedPerson"), ret') ]_vars
    /\ [](heap = <<>> =>
            LET v == ValidateAll(BatchProcessing, "TransformedPerson", now).val
            IN  /\ Len(v) = 5
                /\ \A i \in 1..5 :
                      v[i].validation = [errors |-> <<>>, valid |-> TRUE]
                /\ [i \in 1..5 |-> BatchProcessing.heap[v[i].instance.ref].age]
                     = <<Num(26), Num(40), Num(33), Num(47), Num(20)>>)

\* Jane Doe, created and transformed at 2026-01-10, is the one element of the
\* TransformedPerson list, 26 years old
C11_Witness ==
    /\ op = "transform" /\ ~threw
    /\ arg.className = "TransformedPerson"
    /\ heap[arg.instance.ref].firstName = Jane
    /\ MapGet(instances, "Person") = <<arg.instance>>
    /\ MapGet(instances, "TransformedPerson") = <<ret>>
    /\ heap[ret.ref].age = Num(26)
    /\ heap[ret.ref].fullName = Join(Jane, Doe)

\* the objects of class n's list in world w, in the order of the list
ObjectsOf(w, n) ==
    [i \in 1..Len(ListOf(w.instances, n)) |-> w.heap[ListOf(w.instances, n)[i].ref]]

\* exportToJSON(n), clearInstances(n), importFromJSON(n, exported.instances)
\* in world w: the outcome of the import, or of the export when it throws
ExportClearImport(w, n) ==
    LET e == ExportToJSON(w, n, now)
    IN  IF e.threw THEN e
        ELSE ImportFromJSON(ClearInstances(e.w, n).w, n, e.val.instances, now)

\* C16: exportToJSON(C), clearInstances(C), importFromJSON(C,
\* exported.instances) gives class C a list of the same length with, place
\* by place, the same uri, firstName, lastName and birthDate (Person) or uri,
\* firstName, lastName, fullName and age (TransformedPerson), and leaves the
\* lists of the other classes as they were.
C16_ExportImportRestores ==
    \A n \in ModelClassNames : MapHas(registry, n) =>
        LET r == ExportClearImport(World, n)
        IN  /\ ~r.threw
            /\ ObjectsOf(r.w, n) = ObjectsOf(World, n)
            /\ \A m \in ModelClassNames \ {n} :
                  ListOf(r.w.instances, m) = ListOf(instances, m)

\* C20: the uri of a Person or TransformedPerson stays what it was at
\* construction: no setter, no validation, no export or import and no other
\* call of the DataModel changes the uri of an object that exists, also
\* when the names it was generated from are replaced.
C20_UriFixed ==
    [][ \A i \in DOMAIN heap : heap'[i].uri = heap[i].uri ]_vars

\* the Person built without a uri was renamed Anne-Marie and still has the uri
\* generated from Jane and Doe
C20_Witness ==
    /\ op = "Person.firstName=" /\ ~threw
    /\ heap[1].firstName = <<"A","n","n","e","-","M","a","r","i","e">>
    /\ heap[1].birthDate = Num(Ts(2000, 1, 1, 1))
    /\ heap[1].uri = PersonGenerateUri(Jane, Doe)

\* s without its white space
Squeezed(s) == SelectSeq(s, LAMBDA c : c \notin {" ", "\t", "\n"})

\* the uri a constructor of namespace ns stores for the field map cfg
UriFor(ns, cfg) ==
    IF cfg.uri.ty = "string" /\ cfg.uri.s # <<>>
    THEN cfg.uri.s
    ELSE ns \o Squeezed(cfg.firstName.s \o cfg.lastName.s)

\* C21: a constructor that is given no uri stores the namespace of its class
\* (http://example.com/ex# for Person, http://example.com/ns/Person# for
\* TransformedPerson) followed by firstName and lastName without any white
\* space, so the uri is a function of the two names; a non-empty uri that is
\* given is stored as it is.
C21_UriFromNames ==
    /\ op = "new Person" /\ ~threw =>
          ret.uri = UriFor(<<"h","t","t","p",":","/","/","e","x","a","m","p","l","e",".","c","o","m","/","e","x","#">>, arg)
    /\ op = "new TransformedPerson" /\ ~threw =>
          ret.uri = UriFor(<<"h","t","t","p",":","/","/","e","x","a","m","p","l","e",".","c","o","m","/","n","s","/","P","e","r","s","o","n","#">>, arg)

\* Mary Jo Doe, built without a uri from names with white space in and
\* around them
C21_Witness ==
    /\ op = "new Person" /\ ~threw
    /\ arg.uri = Undefined
    /\ arg.firstName = Str(<<"M","a","r","y"," ","J","o">>)
    /\ arg.lastName = Str(<<" ">> \o Doe \o <<"\t">>)
    /\ ret.uri = SourceNs \o <<"M","a","r","y","J","o","D","o","e">>

\* the checks of validate() that the Person p violates at clock value clock,
\* in the order of the checks
ViolatedChecks(p, clock) ==
    (IF p.firstName = <<>>
     THEN <<"firstName is required and must be non-empty">> ELSE <<>>)
    \o (IF p.lastName = <<>>
        THEN <<"lastName is required and must be non-empty">> ELSE <<>>)
    \o (IF p.birthDate.k # "nan" /\ p.birthDate.n > clock
        THEN <<"birthDate must be in the past">> ELSE <<>>)

\* C22: Person.validate() does not throw and changes no field; valid is true
\* exactly when the error list is empty, and the list holds every violated
\* check (non-empty firstName, non-empty lastName, birthDate not in the
\* future); a constructor or setter call never leaves a Person that
\* validate() would reject, and no other call but a change of the Date
\* object from outside makes a valid Person invalid, so every Person reached
\* through the constructor and the setters is valid.
C22_ValidateReports ==
    /\ [](op = "Person.validate" =>
            /\ ~threw
            /\ ret.errors = ViolatedChecks(person, now)
            /\ ret.valid = (ret.errors = <<>>))
    /\ [][ op' = "Person.validate" => person' = person ]_vars
    /\ [][ ( /\ person'.live
             /\ op' # "birthDate.setTime"
             /\ (person.live => ViolatedChecks(person, now) = <<>>) )
           => ViolatedChecks(person', now') = <<>> ]_vars

\* validate() found nothing on the Person whose birth date is the present
\* moment, after its last name was set
C22_Witness ==
    /\ op = "Person.validate" /\ ~threw
    /\ ret = [errors |-> <<>>, valid |-> TRUE]
    /\ person.birthDate = Num(now)
    /\ person.lastName = Doe

\* C23: the age of a TransformedPerson is always an integer, and the
\* constructor and the age setter throw on every number that is not an
\* integer between 0 and 150, not-a-number and fractions included.
C23_AgeIsInteger ==
    /\ tp.live => tp.age.k = "int" /\ InAgeRange(tp.age)
    /\ (FromFields /\ arg.age.ty = "number" /\ arg.age.x.k # "int") => threw
    /\ (op = "age=" /\ arg.ty = "number" /\ arg.x.k # "int") => threw

\* the classes, transformers, validators and objects are what they were, and
\* so is the array in the caller's hands
OnlyListsChange ==
    /\ registry' = registry
    /\ transformers' = transformers
    /\ validators' = validators
    /\ heap' = heap
    /\ held'.items = held.items
    /\ GetStatistics(World').val.totalClasses
         = GetStatistics(World).val.totalClasses

\* C24: clearInstances(name) empties the list of name and no other list,
\* and does nothing, without an error, when name is not registered;
\* clearAll() empties every list; neither changes which classes are
\* registered, their transformers or validators or the totalClasses of
\* getStatistics(), and an array that getInstances returned before keeps
\* its contents.
C24_ClearOnlyEmptiesLists ==
    /\ [][ op' = "clearInstances" =>
             /\ ~threw'
             /\ OnlyListsChange
             /\ OthersKept(arg'.className)
             /\ ListOf(instances', arg'.className) = <<>>
             /\ ~MapHas(registry, arg'.className) => instances' = instances
          ]_vars
    /\ [][ op' = "clearAll" =>
             /\ ~threw'
             /\ OnlyListsChange
             /\ MapKeys(instances') = MapKeys(instances)
             /\ \A n \in ModelClassNames : ListOf(instances', n) = <<>>
          ]_vars

\* the Person list was cleared: the list of TransformedPersons still has its
\* element, two classes are registered, and the array getInstances returned
\* before still holds the Person
C24_Witness ==
    /\ op = "clearInstances" /\ arg.className = "Person"
    /\ ListOf(instances, "Person") = <<>>
    /\ ListOf(instances, "TransformedPerson") = <<Ref(2)>>
    /\ held.items = <<Ref(1)>>
    /\ GetStatistics(World).val.totalClasses = 2

\* the sum of the numbers of the sequence s
RECURSIVE SumOf(_)
SumOf(s) == IF s = <<>> THEN 0 ELSE Head(s) + SumOf(Tail(s))

\* the registered class names, as a set
RegisteredNames == {n \in ModelClassNames : MapHas(registry, n)}

\* C27: in every state the DataModel reaches, getStatistics() does not
\* throw; its totalClasses is the number of registered classes, its
\* classes[name].count is the length of getInstances(name) for every
\* registered name and for no other, and its totalInstances is the sum of
\* these counts; a call of getStatistics changes nothing.
C27_StatisticsCount ==
    /\ [](LET s == GetStatistics(World)
          IN  /\ ~s.threw
              /\ s.val.totalClasses = Cardinality(RegisteredNames)
              /\ {s.val.classes[i].key : i \in DOMAIN s.val.classes}
                   = RegisteredNames
              /\ Len(s.val.classes) = Cardinality(RegisteredNames)
              /\ \A i \in DOMAIN s.val.classes :
                    /\ s.val.classes[i].value.count
                         = Len(GetInstances(World, s.val.classes[i].key).val.items)
                    /\ s.val.classes[i].value.metadata.instanceCount
                         = s.val.classes[i].value.count
              /\ s.val.totalInstances
                   = SumOf([i \in DOMAIN s.val.classes |->
                              s.val.classes[i].value.count]))
    /\ [](op = "getStatistics" => ~threw /\ ret = GetStatistics(World).val)
    /\ [][ op' = "getStatistics" =>
             /\ registry' = registry /\ instances' = instances
             /\ transformers' = transformers /\ validators' = validators
             /\ heap' = heap ]_vars

\* getStatistics() after two instances in two lists of three classes
C27_Witness ==
    /\ op = "getStatistics" /\ ~threw
    /\ ret.totalClasses = 3
    /\ ret.totalInstances = 2
    /\ \E i, j \in DOMAIN ret.classes :
          /\ i # j
          /\ ret.classes[i].value.count = 1
          /\ ret.classes[j].value.count = 1

\* the index of the first item of data whose fromJSON throws for the
\* constructor c; Len(data) + 1 when none does
FirstThrowing(c, data, clock) ==
    LET bad == {i \in 1..Len(data) : FromJSONOf(c, data[i], clock).threw}
    IN  IF bad = {} THEN Len(data) + 1
        ELSE CHOOSE i \in bad : \A j \in bad : i <= j

\* C29: importFromJSON(name, data) of an unregistered name throws and
\* appends nothing; otherwise, with k the first item that throws, the
\* instances of the items before k are appended to name's list in data
\* order, no other list changes, nothing is made of the items after k, the
\* error of item k comes out, and when no item throws the instances
\* appended are the ones returned.
C29_ImportInOrder ==
    [][ op' = "importFromJSON" =>
          LET n    == arg'.className
              data == arg'.data
          IN  IF ~MapHas(registry, n)
              THEN threw' /\ instances' = instances /\ heap' = heap
              ELSE LET c == MapGet(registry, n).constructor
                       k == FirstThrowing(c, data, now)
                       made == [i \in 1..(k - 1) |-> Ref(Len(heap) + i)]
                   IN  /\ threw' <=> k <= Len(data)
                       /\ threw' => ret' = FromJSONOf(c, data[k], now).val
                       /\ ~threw' => ret'.items = made
                       /\ ListOf(instances', n) = ListOf(instances, n) \o made
                       /\ OthersKept(n)
                       /\ heap' = heap \o
                            [i \in 1..(k - 1) |-> FromJSONOf(c, data[i], now).val]
      ]_vars

\* the third of four items threw: two instances are in the list, in the
\* order of the data
C29_Witness ==
    /\ op = "importFromJSON" /\ threw
    /\ Len(arg.data) = 4
    /\ ListOf(instances, "Person") = <<Ref(1), Ref(2)>>
    /\ Len(heap) = 2
    /\ heap[1].birthDate = Num(Ts(2000, 1, 1, 1))
    /\ heap[2].birthDate = Num(Ts(2000, 1, 1, 0))

\* two items were imported and returned
C29_WitnessAll ==
    /\ op = "importFromJSON" /\ ~threw
    /\ ret.items = <<Ref(1), Ref(2)>>
    /\ ListOf(instances, "Person") = <<Ref(1), Ref(2)>>

\* the setters of Person and TransformedPerson, with the fields each one
\* may change
SetterFields ==
    [o \in {"Person.firstName=", "Person.lastName=", "Person.birthDate=",
             "firstName=", "lastName=", "fullName=", "age="} |->
       CASE o = "Person.firstName=" -> {"firstName"}
         [] o = "Person.lastName="  -> {"lastName"}
         [] o = "Person.birthDate=" -> {"birthDate"}
         [] o = "firstName="        -> {"firstName", "fullName"}
         [] o = "lastName="         -> {"lastName", "fullName"}
         [] o = "fullName="         -> {"fullName"}
         [] o = "age="              -> {"age"}]

\* C26: a setter call on a tracked Person or TransformedPerson that throws
\* leaves every field of the instance as it was, and one that succeeds
\* changes no field but the one it names and, for the name setters of a
\* TransformedPerson, fullName; no other instance changes.
C26_SetterAllOrNothing ==
    [][ op' \in DOMAIN SetterFields =>
          LET i == arg'.instance.ref
          IN  /\ DOMAIN heap' = DOMAIN heap
              /\ \A j \in DOMAIN heap : j # i => heap'[j] = heap[j]
              /\ DOMAIN heap'[i] = DOMAIN heap[i]
              /\ threw' => heap'[i] = heap[i]
              /\ \A f \in DOMAIN heap[i] \ SetterFields[op'] :
                    heap'[i][f] = heap[i][f]
      ]_vars

\* the age setter threw on a TransformedPerson that has its fields
C26_Witness ==
    /\ op = "age=" /\ threw
    /\ arg.value = NumV(Num(200))
    /\ heap[1].age = Num(26)
    /\ heap[1].fullName = Join(Jane, Doe)

\* the last name of a Person was set
C26_WitnessSet ==
    /\ op = "Person.lastName=" /\ ~threw
    /\ heap[1].lastName = Doe
    /\ heap[1].firstName = <<"A","n","n","e","-","M","a","r","i","e">>

-----------------------------------------------------------------------------
(* Properties of the Turtle readers *)

\* the call ended with the parse error
ParseError == threw /\ ret = "Invalid Turtle format"

\* C25: Person.fromTurtle of a text written with some of its four patterns
\* ends with the parse error exactly when a pattern is left out, and
\* TransformedPerson.fromTurtle likewise for its five; whenever every
\* pattern is found, the outcome is that of the constructor on the values
\* found, with the namespace put before the subject's name.
C25_ParseErrorIffPatternAbsent ==
    /\ \A S \in SUBSET PersonPatterns :
          (op = "Person.fromTurtle" /\ arg = Str(PersonTurtleWith(S)))
             => (ParseError <=> S # PersonPatterns)
    /\ \A S \in SUBSET TPPatterns :
          (op = "fromTurtle" /\ arg = Str(TPTurtleWith(S)))
             => (ParseError <=> S # TPPatterns)
    /\ (op = "Person.fromTurtle" /\ ~ParseError)
          => LET c == NewPerson(
                        [firstName |-> Str(MatchQuoted(arg.s, KwFirstName)[1]),
                         lastName  |-> Str(MatchQuoted(arg.s, KwLastName)[1]),
                         birthDate |-> Str(MatchBirthDate(arg.s)[1]),
                         uri       |-> Str(SourceNs \o MatchPersonSubject(arg.s)[1])],
                        now)
             IN  /\ threw = c.threw
                 /\ threw => ret = c.val
                 /\ ~threw => person = c.val
    /\ (op = "fromTurtle" /\ ~ParseError)
          => LET c == NewTP(
                        [firstName |-> Str(MatchQuoted(arg.s, KwFirstName)[1]),
                         lastName  |-> Str(MatchQuoted(arg.s, KwLastName)[1]),
                         uri       |-> Str(TargetNs \o MatchSubject(arg.s)[1]),
                         age       |-> NumV(Num(ParseDigits(MatchAge(arg.s)[1]))),
                         fullName  |-> Str(MatchQuoted(arg.s, KwFullName)[1])])
             IN  /\ threw = c.threw
                 /\ threw => ret = c.val
                 /\ ~threw => tp = c.val

\* a text without the birth date line was refused
C25_Witness ==
    /\ op = "Person.fromTurtle"
    /\ arg = Str(PersonTurtleWith({"type", "firstName", "lastName"}))
    /\ ParseError

\* a text with every pattern and a birth date in the future was refused by
\* the constructor
C25_WitnessConstructor ==
    /\ op = "Person.fromTurtle"
    /\ threw /\ ret = "birthDate must be in the past"

\* a text with every pattern was read
C25_WitnessRead ==
    /\ op = "fromTurtle" /\ arg = Str(TPTurtleWith(TPPatterns)) /\ ~threw
    /\ tp.age = Num(26)

\* a text of a TransformedPerson without the age line was refused
C25_WitnessAge ==
    /\ op = "fromTurtle" /\ ParseError
    /\ arg = Str(TPTurtleWith(TPPatterns \ {"age"}))

\* lit stands somewhere in text
Contains(text, lit) == \E i \in 1..Len(text) : Lit(text, i, lit)

\* the prefixes of the Turtle texts
PrefixNames ==
    { <<"P","e","r","s","o","n">>, <<"C","l","a","s","s">>, <<"e","x">>,
      <<"x","s","d">> }

\* text has a declaration of the prefix
Declares(text, prefix) ==
    Contains(text, <<"@","p","r","e","f","i","x"," ">> \o prefix \o <<":", " ", "<">>)

\* text has a name with the prefix: a statement begins with it, or it comes
\* after a blank or the ^^ of a typed literal
UsesPrefix(text, prefix) ==
    \E i \in 1..Len(text) :
        /\ Lit(text, i, prefix \o <<":">>)
        /\ i + Len(prefix) + 1 <= Len(text)
        /\ IsWord(text[i + Len(prefix) + 1])
        /\ \/ i = 1
           \/ text[i - 1] \in {" ", "\n", "^"}

\* C28: the text exportToTurtle() returns for the whole Registry declares
\* every prefix that its statements use.
C28_ExportDeclaresPrefixes ==
    (op = "exportToTurtle" /\ arg.className = "" /\ ~threw)
       => \A prefix \in PrefixNames :
             UsesPrefix(ret, prefix) => Declares(ret, prefix)

-----------------------------------------------------------------------------
(* Properties of the FusekiConnector *)

\* C30: save and saveAll are rejected with no request issued when an object
\* has no toTurtle method; every other call issues exactly one request, a
\* POST whose body is the Turtle of all its objects; and the call is
\* rejected exactly when the request failed or its response was not ok,
\* with that one request and no other.
C30_OneRequestPerSave ==
    [][ op' \in {"save", "saveAll"} =>
          LET objects == IF op' = "save" THEN <<arg'.object>> ELSE arg'.objects
          IN  IF \E i \in 1..Len(objects) : ~HasToTurtle(objects[i])
              THEN threw' /\ sent' = sent
              ELSE /\ Len(sent') = Len(sent) + 1
                   /\ SubSeq(sent', 1, Len(sent)) = sent
                   /\ sent'[Len(sent')].method = "POST"
                   /\ sent'[Len(sent')].body
                        = JoinParts([i \in 1..Len(objects) |->
                                       ToTurtleOf(objects[i], i = 1).val])
                   /\ threw' <=> ~sent'[Len(sent')].response.ok
      ]_vars

====
